---- MODULE Spec2Model ----
(***************************************************************************)
(* Model of the clinical-document generation core of mvp/app:              *)
(*   llm.py        LLMClient (cache, retry loop, provider loop, fallback)  *)
(*                 _parse_completion, revise_text                          *)
(*   schemas.py    SCHEMA_MAP, get_schema, validate_document               *)
(*   providers.py  build_providers                                         *)
(*   utils.py      sanitize_text, normalize_text, normalize_bullets,       *)
(*                 make_cache_key                                          *)
(*   validators.py validar_regras                                          *)
(*   normalizer.py normalize_text, normalize_payload                       *)
(*   pipeline.py   processar, behind generate of api/main.py               *)
(***************************************************************************)
EXTENDS Integers, Sequences, FiniteSets, TLC

VARIABLES
    avail,          \* environment: provider name -> is_available() right now
    providers,      \* self.providers: provider names in dict order
    cache,          \* self.cache: OrderedDict as a sequence of [key, value]
    cache_size,     \* self.cache_size
    max_retries,    \* self.max_retries
    pc,             \* position of the running request
    req,            \* the request being served
    pidx,           \* index in providers of the provider being tried
    attempt,        \* attempt index inside _call_provider
    calls,          \* provider.generate calls made for this request, in order
    sleeps,         \* time.sleep arguments of this request, in units of retry_backoff_s
    result,         \* what the request returned or raised
    prev,           \* request and result of the previous completed call
    cache0,         \* the cache as it was when the request started
    nreq,           \* number of completed calls
    used,           \* cache keys by last insert or read, least recent first
    op              \* the last direct cache operation

vars == <<avail, providers, cache, cache_size, max_retries, pc, req,
          pidx, attempt, calls, sleeps, result, prev, cache0, nreq, used, op>>

----------------------------------------------------------------------------
(* Python values.  A str is a sequence of runs [c, n]: the text c repeated  *)
(* n times; typed text is made of one-character runs, template literals of *)
(* one run each.  Accented letters of the source literals are written      *)
(* without the accent (same number of characters).                         *)

PyNone == [t |-> "none"]
PyInt(n) == [t |-> "int", n |-> n]
PyStr(s) == [t |-> "str", s |-> s]
PyList(items) == [t |-> "list", items |-> items]
PyDict(d) == [t |-> "dict", d |-> d]

NoFields == [k \in {} |-> PyNone]
EmptyDict == PyDict(NoFields)
EmptyList == PyList(<<>>)
EmptyStr == PyStr(<<>>)

Run(c, n) == [c |-> c, n |-> n]
Chunk(text) == IF text = "" THEN <<>> ELSE <<Run(text, 1)>>
Lit(text) == PyStr(Chunk(text))

IsStr(v) == v.t = "str"
IsInt(v) == v.t = "int"
IsList(v) == v.t = "list"
IsDict(v) == v.t = "dict"

RECURSIVE TextLen(_)
TextLen(s) == IF s = <<>> THEN 0 ELSE Len(s[1].c) * s[1].n + TextLen(Tail(s))

\* bool(v)
Truthy(v) ==
    CASE v.t = "none" -> FALSE
      [] v.t = "int" -> v.n # 0
      [] v.t = "str" -> v.s # <<>>
      [] v.t = "list" -> v.items # <<>>
      [] v.t = "dict" -> DOMAIN v.d # {}

\* a or b
Or(a, b) == IF Truthy(a) THEN a ELSE b

\* d.get(k) and d.get(k, default), for d a dict
Get(d, k) == IF k \in DOMAIN d.d THEN d.d[k] ELSE PyNone
GetOr(d, k, default) == IF k \in DOMAIN d.d THEN d.d[k] ELSE default

\* dict(d) with d[k] = v
Put(d, k, v) == PyDict([x \in DOMAIN d.d \cup {k} |-> IF x = k THEN v ELSE d.d[x]])

\* a space is always a run of its own, never the edge of a longer literal
Blank == <<Run(" ", 1)>>

RECURSIVE KeySeq(_)
KeySeq(S) == IF S = {} THEN <<>>
             ELSE LET k == CHOOSE x \in S : TRUE IN <<k>> \o KeySeq(S \ {k})

\* repr(v) and str(v) as text: what an f-string field renders
RECURSIVE Repr(_)
RECURSIVE ReprItems(_)
RECURSIVE ReprFields(_, _)
Repr(v) ==
    CASE v.t = "none" -> Chunk("None")
      [] v.t = "int" -> Chunk(ToString(v.n))
      [] v.t = "str" -> Chunk("'") \o v.s \o Chunk("'")
      [] v.t = "list" -> Chunk("[") \o ReprItems(v.items) \o Chunk("]")
      [] v.t = "dict" -> Chunk("{") \o ReprFields(v.d, KeySeq(DOMAIN v.d)) \o Chunk("}")
ReprItems(items) ==
    IF items = <<>> THEN <<>>
    ELSE Repr(items[1]) \o (IF Len(items) > 1 THEN Chunk(",") \o Blank ELSE <<>>)
         \o ReprItems(Tail(items))
ReprFields(d, ks) ==
    IF ks = <<>> THEN <<>>
    ELSE Chunk("'") \o Chunk(ks[1]) \o Chunk("':") \o Blank \o Repr(d[ks[1]])
         \o (IF Len(ks) > 1 THEN Chunk(",") \o Blank ELSE <<>>) \o ReprFields(d, Tail(ks))

Str(v) == IF v.t = "str" THEN v.s ELSE Repr(v)

Semicolon == Chunk(";") \o Blank
Comma == Chunk(",") \o Blank

\* sep.join(items) for a list of str
RECURSIVE Join(_, _)
Join(sep, items) ==
    IF items = <<>> THEN <<>>
    ELSE items[1].s \o (IF Len(items) > 1 THEN sep ELSE <<>>) \o Join(sep, Tail(items))

AllStr(items) == \A i \in 1..Len(items) : IsStr(items[i])

----------------------------------------------------------------------------
(* Text helpers *)

Sp == Blank
IsSpace(r) == r.c = " "

RECURSIVE LStrip(_)
LStrip(s) == IF s # <<>> /\ IsSpace(s[1]) THEN LStrip(Tail(s)) ELSE s
RECURSIVE RStrip(_)
RStrip(s) == IF s # <<>> /\ IsSpace(s[Len(s)]) THEN RStrip(SubSeq(s, 1, Len(s) - 1)) ELSE s
\* str.strip()
Strip(s) == RStrip(LStrip(s))

\* " ".join(s.split()) of a text with no leading whitespace
RECURSIVE Collapse(_)
Collapse(s) ==
    IF s = <<>> THEN <<>>
    ELSE IF IsSpace(s[1]) THEN Sp \o Collapse(LStrip(s))
    ELSE <<s[1]>> \o Collapse(Tail(s))

\* utils.sanitize_text
sanitize_text(s) == IF s = <<>> THEN <<>> ELSE Collapse(Strip(s))

UpperOf == [c \in {"a", "b", "s"} |-> CASE c = "a" -> "A" [] c = "b" -> "B" [] c = "s" -> "S"]
LowerOf == [c \in {"A", "B", "S"} |-> CASE c = "A" -> "a" [] c = "B" -> "b" [] c = "S" -> "s"]
UpperRun(r) == IF r.c \in DOMAIN UpperOf THEN Run(UpperOf[r.c], r.n) ELSE r
LowerRun(r) == IF r.c \in DOMAIN LowerOf THEN Run(LowerOf[r.c], r.n) ELSE r
\* str.lower()
Lower(s) == [i \in 1..Len(s) |-> LowerRun(s[i])]

\* lowered[0].upper() + lowered[1:]
Capitalize(s) ==
    IF s = <<>> THEN s
    ELSE <<UpperRun(Run(s[1].c, 1))>>
         \o (IF s[1].n > 1 THEN <<Run(s[1].c, s[1].n - 1)>> ELSE <<>>) \o Tail(s)

\* utils.normalize_text; raises AttributeError on a truthy value that is no str.
\* The glossary file is data outside the code (_load_glossary returns {} without
\* it), so no term is replaced.
NormalizeTextRaises(v) == Truthy(v) /\ ~IsStr(v)
normalize_text(v) == IF ~Truthy(v) THEN EmptyStr ELSE PyStr(Capitalize(Lower(v.s)))

\* utils.normalize_bullets: [normalize_text(item) for item in bullets if item]
RECURSIVE NormalizeItems(_)
NormalizeItems(items) ==
    IF items = <<>> THEN <<>>
    ELSE (IF Truthy(items[1]) THEN <<normalize_text(items[1])>> ELSE <<>>)
         \o NormalizeItems(Tail(items))

\* one-character strings of a str, as iterating it gives them
RECURSIVE Chars(_)
Chars(s) ==
    IF s = <<>> THEN <<>>
    ELSE [i \in 1..s[1].n |-> PyStr(<<Run(s[1].c, 1)>>)] \o Chars(Tail(s))

\* the items iterating a value gives; an int or None cannot be iterated
Iterable(v) == v.t \in {"list", "str", "dict"}
IterItems(v) ==
    CASE v.t = "list" -> v.items
      [] v.t = "str" -> Chars(v.s)
      [] v.t = "dict" -> [i \in 1..Len(KeySeq(DOMAIN v.d)) |-> Lit(KeySeq(DOMAIN v.d)[i])]

NormalizeBulletsRaises(v) ==
    Truthy(v) /\ (~Iterable(v) \/ \E i \in 1..Len(IterItems(v)) : NormalizeTextRaises(IterItems(v)[i]))
normalize_bullets(v) == IF ~Truthy(v) THEN EmptyList ELSE PyList(NormalizeItems(IterItems(v)))

\* "; ".join(s) of a str s: its characters, each run c*n giving c then n-1 times "; c"
RECURSIVE JoinChars(_)
JoinChars(s) ==
    IF s = <<>> THEN <<>>
    ELSE <<Run(s[1].c, 1)>>
         \o (IF s[1].n > 1 THEN <<Run("; " \o s[1].c, s[1].n - 1)>> ELSE <<>>)
         \o (IF Len(s) > 1 THEN Semicolon ELSE <<>>) \o JoinChars(Tail(s))

\* "; ".join(v): TypeError unless v iterates over str
JoinRaises(v) == ~Iterable(v) \/ (IsList(v) /\ ~AllStr(v.items))
JoinAny(v) == IF IsStr(v) THEN JoinChars(v.s) ELSE Join(Semicolon, IterItems(v))

\* json.dumps(v, ensure_ascii=False): the keys in the one order the model keeps
RECURSIVE Dumps(_)
RECURSIVE DumpsItems(_)
RECURSIVE DumpsFields(_, _)
Dumps(v) ==
    CASE v.t = "none" -> Chunk("null")
      [] v.t = "int" -> Chunk(ToString(v.n))
      [] v.t = "str" -> Chunk("\"") \o v.s \o Chunk("\"")
      [] v.t = "list" -> Chunk("[") \o DumpsItems(v.items) \o Chunk("]")
      [] v.t = "dict" -> Chunk("{") \o DumpsFields(v.d, KeySeq(DOMAIN v.d)) \o Chunk("}")
DumpsItems(items) ==
    IF items = <<>> THEN <<>>
    ELSE Dumps(items[1]) \o (IF Len(items) > 1 THEN Chunk(",") \o Sp ELSE <<>>)
         \o DumpsItems(Tail(items))
DumpsFields(d, ks) ==
    IF ks = <<>> THEN <<>>
    ELSE Chunk("\"") \o Chunk(ks[1]) \o Chunk("\":") \o Sp \o Dumps(d[ks[1]])
         \o (IF Len(ks) > 1 THEN Chunk(",") \o Sp ELSE <<>>) \o DumpsFields(d, Tail(ks))

----------------------------------------------------------------------------
(* schemas.py *)

SupportedTypes == {"SOAP", "ATESTADO", "ENCAMINHAMENTO", "PARECER", "LAUDO"}

\* str.upper() of a document type name
Upper(name) ==
    CASE name = "soap" -> "SOAP"
      [] name = "atestado" -> "ATESTADO"
      [] OTHER -> name

NoLimit == 0 - 1
StringProp(max) == [type |-> "string", maxLength |-> max, minimum |-> NoLimit]
ArrayProp == [type |-> "array", maxLength |-> NoLimit, minimum |-> NoLimit]
IntegerProp(min) == [type |-> "integer", maxLength |-> NoLimit, minimum |-> min]
ObjectProp == [type |-> "object", maxLength |-> NoLimit, minimum |-> NoLimit]

IDENTIFICATION_SCHEMA ==
    [required |-> {},
     props |-> [k \in {"nome", "cpf", "cns"} |-> StringProp(NoLimit)]]

\* a SOAP schema that requires no section
SOAP_SCHEMA_NothingRequired ==
    [required |-> {},
     props |-> ("S" :> StringProp(6000) @@ "O" :> StringProp(6000)
                @@ "A" :> ArrayProp @@ "P" :> ArrayProp
                @@ "referencias" :> ArrayProp
                @@ "retorno_em_dias" :> IntegerProp(0)
                @@ "identificacao" :> ObjectProp)]

SOAP_SCHEMA ==
    [required |-> {"S", "O", "A", "P"},
     props |-> ("S" :> StringProp(6000) @@ "O" :> StringProp(6000)
                @@ "A" :> ArrayProp @@ "P" :> ArrayProp
                @@ "referencias" :> ArrayProp
                @@ "retorno_em_dias" :> IntegerProp(0)
                @@ "identificacao" :> ObjectProp)]

ATESTADO_SCHEMA ==
    [required |-> {"texto", "cid", "dias_afastamento"},
     props |-> ("texto" :> StringProp(4000) @@ "cid" :> StringProp(NoLimit)
                @@ "dias_afastamento" :> IntegerProp(0)
                @@ "identificacao" :> ObjectProp)]

ENCAMINHAMENTO_SCHEMA ==
    [required |-> {"texto"},
     props |-> ("texto" :> StringProp(5000) @@ "especialidade" :> StringProp(NoLimit)
                @@ "referencias" :> ArrayProp
                @@ "identificacao" :> ObjectProp)]

PARECER_SCHEMA ==
    [required |-> {"texto"},
     props |-> ("texto" :> StringProp(6000) @@ "motivo" :> StringProp(NoLimit)
                @@ "conclusao" :> ArrayProp @@ "recomendacoes" :> ArrayProp
                @@ "anexos" :> ArrayProp
                @@ "identificacao" :> ObjectProp)]

LAUDO_SCHEMA ==
    [required |-> {"texto"},
     props |-> ("texto" :> StringProp(6000) @@ "motivo" :> StringProp(NoLimit)
                @@ "achados" :> ArrayProp
                @@ "conclusao" :> ArrayProp @@ "recomendacoes" :> ArrayProp
                @@ "anexos" :> ArrayProp
                @@ "identificacao" :> ObjectProp)]

SCHEMA_MAP ==
    "SOAP" :> SOAP_SCHEMA @@ "ATESTADO" :> ATESTADO_SCHEMA
    @@ "ENCAMINHAMENTO" :> ENCAMINHAMENTO_SCHEMA
    @@ "PARECER" :> PARECER_SCHEMA @@ "LAUDO" :> LAUDO_SCHEMA

\* get_schema accepting any type name
GetSchemaNeverRaises(document_type) == FALSE

\* get_schema raises KeyError for a type that is not in SCHEMA_MAP
GetSchemaRaises(document_type) == Upper(document_type) \notin DOMAIN SCHEMA_MAP
get_schema(document_type) == SCHEMA_MAP[Upper(document_type)]

\* one property of a Draft 7 schema; additionalProperties is true everywhere
RECURSIVE ValidObject(_, _)
ValidProp(v, p) ==
    CASE p.type = "string" ->
            IsStr(v) /\ (p.maxLength = NoLimit \/ TextLen(v.s) <= p.maxLength)
      [] p.type = "array" -> IsList(v) /\ AllStr(v.items)
      [] p.type = "integer" -> IsInt(v) /\ v.n >= p.minimum
      [] p.type = "object" -> ValidObject(v, IDENTIFICATION_SCHEMA)
ValidObject(v, schema) ==
    /\ IsDict(v)
    /\ schema.required \subseteq DOMAIN v.d
    /\ \A k \in DOMAIN v.d \cap DOMAIN schema.props : ValidProp(v.d[k], schema.props[k])

\* validate_document(document_type, payload) returns without raising
validate_document(document_type, payload) ==
    /\ ~GetSchemaRaises(document_type)
    /\ ValidObject(payload, get_schema(document_type))

----------------------------------------------------------------------------
(* llm.py: deterministic fallback *)

Returned(text, json) == [status |-> "returned", error |-> "", text |-> text, json |-> json]
Raised(error) == [status |-> "raised", error |-> error, text |-> EmptyStr, json |-> PyNone]

\* a missing value left as None instead of the "nao informado" sentinel
NaoInformadoNone == PyNone

NaoInformado == Lit("nao informado")

DigitOf == [c \in {"0", "1", "2", "3", "4", "5", "6", "7", "8", "9"} |->
              CASE c = "0" -> 0 [] c = "1" -> 1 [] c = "2" -> 2 [] c = "3" -> 3
                [] c = "4" -> 4 [] c = "5" -> 5 [] c = "6" -> 6 [] c = "7" -> 7
                [] c = "8" -> 8 [] c = "9" -> 9]
IsDigits(s) == s # <<>> /\ \A i \in 1..Len(s) : s[i].c \in DOMAIN DigitOf
RECURSIVE DigitsValue(_, _)
DigitsValue(s, acc) ==
    IF s = <<>> THEN acc
    ELSE IF s[1].n = 0 THEN DigitsValue(Tail(s), acc)
    ELSE DigitsValue(<<Run(s[1].c, s[1].n - 1)>> \o Tail(s), 10 * acc + DigitOf[s[1].c])

\* int(v): ValueError on text that is no number, TypeError on None, a list or a dict
IntRaises(v) ==
    CASE v.t = "int" -> FALSE
      [] v.t = "str" -> ~IsDigits(Strip(v.s))
      [] OTHER -> TRUE
IntError(v) == IF v.t = "str" THEN "ValueError" ELSE "TypeError"
IntOf(v) == IF v.t = "int" THEN v.n ELSE DigitsValue(Strip(v.s), 0)

\* [item.strip() for item in text.split(";") if item.strip()]
RECURSIVE SplitSemicolon(_, _)
SplitSemicolon(s, cur) ==
    IF s = <<>> THEN (IF Strip(cur) # <<>> THEN <<PyStr(Strip(cur))>> ELSE <<>>)
    ELSE IF s[1].c = ";"
         THEN (IF Strip(cur) # <<>> THEN <<PyStr(Strip(cur))>> ELSE <<>>)
              \o SplitSemicolon(Tail(s), <<>>)
         ELSE SplitSemicolon(Tail(s), cur \o <<s[1]>>)

Identificacao(nome, cpf, cns) == PyDict("nome" :> nome @@ "cpf" :> cpf @@ "cns" :> cns)

PlanoSOAP ==
    <<Lit("Orientacoes gerais fornecidas"), Lit("Sinais de alarme esclarecidos"),
      Lit("Retorno programado conforme disponibilidade")>>

\* the header "IDENTIFICACAO: ..." line shared by PARECER and LAUDO
Cabecalho(nome, cpf, cns, sexo, idade, motivo) ==
    Chunk("IDENTIFICACAO:") \o Sp \o Str(nome) \o Sp \o Chunk("(CPF") \o Sp
    \o Str(Or(cpf, NaoInformado)) \o Chunk(";") \o Sp \o Chunk("CNS") \o Sp
    \o Str(Or(cns, NaoInformado)) \o Chunk("),") \o Sp \o Str(sexo) \o Chunk(",") \o Sp
    \o Str(idade) \o Sp \o Chunk("anos.\nMOTIVO:") \o Sp \o Str(motivo) \o Chunk(".\n")

SinaisVitais(pa, fc, temp) ==
    Chunk("PA") \o Sp \o Str(pa) \o Chunk(",") \o Sp \o Chunk("FC") \o Sp \o Str(fc) \o Sp
    \o Chunk("bpm,") \o Sp \o Chunk("Temp") \o Sp \o Str(temp) \o Sp \o Chunk("oC.")

FallbackSOAP(nome, cpf, cns, sexo, idade, queixa, bullets, pa, fc, temp) ==
    IF Truthy(bullets) /\ JoinRaises(bullets) THEN Raised("TypeError")
    ELSE LET subjetivo == Strip(
                 Str(nome) \o Chunk(",") \o Sp \o Str(sexo) \o Chunk(",") \o Sp \o Str(idade)
                 \o Sp \o Chunk("anos, refere") \o Sp \o Str(queixa) \o Chunk(".") \o Sp
                 \o (IF Truthy(bullets)
                     THEN Chunk("Itens adicionais:") \o Sp \o JoinAny(bullets)
                          \o Chunk(".") \o Sp
                     ELSE <<>>))
             objetivo == Chunk("Exame fisico sem alteracoes importantes. Sinais vitais:")
                         \o Sp \o SinaisVitais(pa, fc, temp)
             avaliacao == <<IF IsStr(queixa) THEN PyStr(Str(queixa))
                            ELSE Lit("Avaliacao clinica em andamento")>>
             json_out == PyDict("S" :> PyStr(subjetivo) @@ "O" :> PyStr(objetivo)
                                @@ "A" :> PyList(avaliacao) @@ "P" :> PyList(PlanoSOAP)
                                @@ "referencias" :> EmptyList
                                @@ "identificacao" :> Identificacao(nome, cpf, cns))
             texto == Chunk("S:") \o Sp \o subjetivo \o Chunk("\nO:") \o Sp \o objetivo
                      \o Chunk("\nA:") \o Sp \o Join(Comma, avaliacao)
                      \o Chunk("\nP:") \o Sp \o Join(Semicolon, PlanoSOAP)
         IN Returned(PyStr(texto), json_out)

DefaultDias == 3

FallbackATESTADO(dados, nome, cpf, cns, motivo) ==
    LET dias == Or(Get(dados, "dias_afastamento"), PyInt(DefaultDias))
        cid == Or(Get(dados, "cid"), NaoInformado)
        texto == Chunk("Atesto para fins legais que") \o Sp \o Str(nome) \o Sp
                 \o Chunk("(CPF") \o Sp \o Str(Or(cpf, NaoInformado)) \o Chunk(",") \o Sp
                 \o Chunk("CNS") \o Sp \o Str(Or(cns, NaoInformado)) \o Chunk(")") \o Sp
                 \o Chunk("foi avaliado(a) nesta unidade em") \o Sp
                 \o Str(Or(motivo, Lit("consulta")))
                 \o Chunk(". Condicao compativel com CID") \o Sp \o Str(cid) \o Chunk(",") \o Sp
                 \o Chunk("com necessidade de afastamento por") \o Sp \o Str(dias) \o Sp
                 \o Chunk("dia(s).")
    IN IF IntRaises(dias) THEN Raised(IntError(dias))
       ELSE Returned(PyStr(texto),
                     PyDict("texto" :> PyStr(texto) @@ "cid" :> cid
                            @@ "dias_afastamento" :> PyInt(IntOf(dias))
                            @@ "identificacao" :> Identificacao(nome, cpf, cns)))

FallbackENCAMINHAMENTO(dados, nome, cpf, cns, sexo, idade, queixa, pa, fc, temp) ==
    LET especialidade == Or(Get(dados, "especialidade"), Lit("especialidade pertinente"))
        texto == Chunk("Encaminho") \o Sp \o Str(nome) \o Chunk(",") \o Sp \o Str(sexo)
                 \o Chunk(",") \o Sp \o Str(idade) \o Sp \o Chunk("anos, para avaliacao em")
                 \o Sp \o Str(especialidade) \o Chunk(".") \o Sp \o Chunk("Motivo:") \o Sp
                 \o Str(queixa) \o Chunk(".") \o Sp \o Chunk("Sinais vitais atuais:") \o Sp
                 \o SinaisVitais(pa, fc, temp)
    IN Returned(PyStr(texto),
                PyDict("texto" :> PyStr(texto) @@ "especialidade" :> especialidade
                       @@ "referencias" :> EmptyList
                       @@ "identificacao" :> Identificacao(nome, cpf, cns)))

\* Line 259-260 of llm.py put a parenthesised conditional right before a string
\* literal, which Python rejects; the text is modelled as the concatenation the
\* layout shows (SINTESE, the optional items, then ANALISE .. RECOMENDACOES).
FallbackPARECER(nome, cpf, cns, sexo, idade, queixa, bullets, motivo, achados_texto) ==
    IF Truthy(bullets) /\ JoinRaises(bullets) THEN Raised("TypeError")
    ELSE LET texto == Cabecalho(nome, cpf, cns, sexo, idade, motivo)
                      \o Chunk("SINTESE:") \o Sp \o Str(queixa) \o Chunk(".") \o Sp
                      \o (IF Truthy(bullets)
                          THEN Chunk("Itens adicionais:") \o Sp \o JoinAny(bullets)
                               \o Chunk(".\n")
                          ELSE Chunk("\n"))
                      \o Chunk("ANALISE:") \o Sp \o Str(achados_texto)
                      \o Chunk(".\nCONCLUSAO: quadro compativel com") \o Sp \o Str(queixa)
                      \o Chunk(".\nRECOMENDACOES: acompanhamento na APS, retorno programado e orientacoes reforcadas.")
         IN Returned(PyStr(texto),
                     PyDict("texto" :> PyStr(texto) @@ "motivo" :> motivo
                            @@ "conclusao" :> PyList(<<PyStr(Chunk("Quadro compativel com")
                                                             \o Sp \o Str(queixa))>>)
                            @@ "recomendacoes" :> PyList(<<Lit("Acompanhamento na APS"),
                                                           Lit("Retorno programado"),
                                                           Lit("Sinais de alarme esclarecidos")>>)
                            @@ "anexos" :> EmptyList
                            @@ "identificacao" :> Identificacao(nome, cpf, cns)))

FallbackLAUDO(nome, cpf, cns, sexo, idade, queixa, motivo, achados_texto) ==
    IF ~IsStr(achados_texto) THEN Raised("AttributeError")
    ELSE LET texto == Cabecalho(nome, cpf, cns, sexo, idade, motivo)
                      \o Chunk("PROCEDIMENTO/EXAME: conforme avaliacao clinica.\nACHADOS:")
                      \o Sp \o Str(achados_texto)
                      \o Chunk(".\nCONCLUSAO: achados compativeis com") \o Sp \o Str(queixa)
                      \o Chunk(".\nRECOMENDACOES: correlacionar com quadro clinico e manter acompanhamento na APS.")
         IN Returned(PyStr(texto),
                     PyDict("texto" :> PyStr(texto) @@ "motivo" :> motivo
                            @@ "achados" :> PyList(SplitSemicolon(achados_texto.s, <<>>))
                            @@ "conclusao" :> PyList(<<PyStr(Chunk("Achados compativeis com")
                                                             \o Sp \o Str(queixa))>>)
                            @@ "recomendacoes" :> PyList(<<Lit("Correlacionar clinicamente"),
                                                           Lit("Retorno programado"),
                                                           Lit("Orientacoes de sinais de alarme")>>)
                            @@ "anexos" :> EmptyList
                            @@ "identificacao" :> Identificacao(nome, cpf, cns)))

FallbackOther(dados, nome, cpf, cns) ==
    LET texto == Chunk("Documento clinico referente a") \o Sp \o Str(nome)
                 \o Chunk(". Gerado automaticamente. Dados fornecidos:") \o Sp
                 \o sanitize_text(Dumps(dados))
    IN Returned(PyStr(texto),
                PyDict("texto" :> PyStr(texto)
                       @@ "identificacao" :> Identificacao(nome, cpf, cns)))

\* fallback_rule_based(document_type, dados): the (texto, json_out) pair or the
\* exception it raises
fallback_rule_based(document_type, dados) ==
    LET tipo == Upper(document_type)
        pessoa == Or(Get(dados, "pessoa"), EmptyDict)
        ident == Or(Get(dados, "identificacao"), EmptyDict)
        sinais == Or(Get(dados, "sinais_vitais"), EmptyDict)
    IN IF ~IsDict(pessoa) \/ ~IsDict(ident) \/ ~IsDict(sinais) THEN Raised("AttributeError")
       ELSE LET idade == GetOr(pessoa, "idade", NaoInformado)
                sexo == GetOr(pessoa, "sexo", NaoInformado)
                nome == GetOr(ident, "nome", Lit("Paciente"))
                cpf == GetOr(ident, "cpf", EmptyStr)
                cns == GetOr(ident, "cns", EmptyStr)
                bullets == Or(Get(dados, "bullets"), EmptyList)
                queixa == Or(Get(dados, "queixa_principal"), NaoInformado)
                pa == GetOr(sinais, "pa", NaoInformado)
                fc == GetOr(sinais, "fc", NaoInformado)
                temp == GetOr(sinais, "temp", NaoInformado)
                motivo == Or(Get(dados, "motivo"), Or(Get(dados, "finalidade"), NaoInformado))
                achados_texto == Or(Get(dados, "achados_texto"), NaoInformado)
            IN CASE tipo = "SOAP" ->
                      FallbackSOAP(nome, cpf, cns, sexo, idade, queixa, bullets, pa, fc, temp)
                 [] tipo = "ATESTADO" -> FallbackATESTADO(dados, nome, cpf, cns, motivo)
                 [] tipo = "ENCAMINHAMENTO" ->
                      FallbackENCAMINHAMENTO(dados, nome, cpf, cns, sexo, idade, queixa,
                                             pa, fc, temp)
                 [] tipo = "PARECER" ->
                      FallbackPARECER(nome, cpf, cns, sexo, idade, queixa, bullets, motivo,
                                      achados_texto)
                 [] tipo = "LAUDO" ->
                      FallbackLAUDO(nome, cpf, cns, sexo, idade, queixa, motivo, achados_texto)
                 [] OTHER -> FallbackOther(dados, nome, cpf, cns)

----------------------------------------------------------------------------
(* llm.py: LLMClient *)

Result(text, json, provider) ==
    [status |-> "returned", error |-> "", text |-> text, json |-> json, provider |-> provider]
Failure(error) ==
    [status |-> "raised", error |-> error, text |-> EmptyStr, json |-> PyNone, provider |-> ""]
NoResult ==
    [status |-> "none", error |-> "", text |-> EmptyStr, json |-> PyNone, provider |-> ""]

Keys(c) == {c[i].key : i \in 1..Len(c)}
IndexOf(c, key) == CHOOSE i \in 1..Len(c) : c[i].key = key
Without(c, key) == SelectSeq(c, LAMBDA e : e.key # key)

\* OrderedDict.move_to_end(key): KeyError when the key is absent
MoveToEnd(c, key) == Without(c, key) \o <<c[IndexOf(c, key)]>>

\* OrderedDict.popitem(last=False)
PopFirst(c) == Tail(c)

\* self.cache.get(key)
CacheValue(c, key) == IF key \in Keys(c) THEN c[IndexOf(c, key)].value ELSE NoResult

\* a lookup that never finds the entry
CacheHitNever(c, key) == FALSE

\* _cache_get: the value returned, and the cache afterwards
CacheHit(c, key) == CacheValue(c, key).status # "none"

\* _cache_get without move_to_end
CacheAfterGetNoMove(c, key) == c

CacheAfterGet(c, key) == IF CacheHit(c, key) THEN MoveToEnd(c, key) ELSE c

\* self.cache[key] = value: an existing key keeps its position
SetItem(c, key, value) ==
    IF key \in Keys(c)
    THEN [i \in 1..Len(c) |-> IF c[i].key = key THEN [key |-> key, value |-> value] ELSE c[i]]
    ELSE Append(c, [key |-> key, value |-> value])

RECURSIVE Evict(_, _)
Evict(c, size) == IF Len(c) > size THEN Evict(PopFirst(c), size) ELSE c

\* _cache_set
CacheAfterSet(c, key, value, size) == Evict(MoveToEnd(SetItem(c, key, value), key), size)

\* the recency order the LRU policy is stated in: a key is used when it is
\* inserted or read; the keys that left the cache are forgotten
Touch(u, key) == SelectSeq(u, LAMBDA k : k # key) \o <<key>>
Forget(u, c) == SelectSeq(u, LAMBDA k : k \in Keys(c))

ProviderNames == {"ollama", "openai"}

\* providers.build_providers(): the available providers, ollama first
build_providers(available) ==
    (IF available["ollama"] THEN <<"ollama">> ELSE <<>>)
    \o (IF available["openai"] THEN <<"openai">> ELSE <<>>)

\* _available_providers: every provider of self.providers, rebuilt when empty
available_providers(provs, available) ==
    IF provs = <<>> THEN build_providers(available) ELSE provs

\* _normalize_payload
NormalizePayloadRaises(payload) ==
    \/ NormalizeTextRaises(GetOr(payload, "queixa_principal", EmptyStr))
    \/ NormalizeBulletsRaises(Get(payload, "bullets"))
normalize_payload(payload) ==
    Put(Put(payload, "queixa_principal",
            normalize_text(GetOr(payload, "queixa_principal", EmptyStr))),
        "bullets", normalize_bullets(Get(payload, "bullets")))

\* utils.make_cache_key(doc_type, blob, params={"context": context}); the
\* SHA-256 digest is taken as injective, so the key is the text that is hashed
make_cache_key(doc_type, blob, context) ==
    Chunk(doc_type) \o Chunk("::") \o blob \o Chunk("::")
    \o Dumps(PyDict("context" :> context))

CacheKey(doc_type, normalized, context) ==
    make_cache_key(doc_type, sanitize_text(Dumps(normalized)), context)

\* A raw completion: its prose, and its JSON block: absent ("none"), text that
\* json.loads rejects ("garbage"), or JSON text with the value json ("json")
Completion(text, kind, json) == [text |-> text, kind |-> kind, json |-> json]

\* _parse_completion: (text_block, json_payload)
parse_completion(response) ==
    [text |-> PyStr(Strip(response.text.s)),
     json |-> IF response.kind = "json" THEN response.json ELSE EmptyDict]

NoReq ==
    [op |-> "", document_type |-> "", payload |-> EmptyDict, context |-> EmptyStr,
     doc_type |-> "", normalized |-> EmptyDict, key |-> <<>>]

----------------------------------------------------------------------------
(* Inputs *)

MaxRetries == 2
MaxCacheSize == 2
MaxRequests == 2

Text(chars) == PyStr([i \in 1..Len(chars) |-> Run(chars[i], 1)])

DocumentTypes == {"ATESTADO", "soap", "EXAME"}
Contexts == {Lit("ctx")}
Payloads ==
    { EmptyDict,
      PyDict("dias_afastamento" :> PyInt(0 - 1)),
      PyDict("dias_afastamento" :> Text(<<"a", "b">>)),
      PyDict("queixa_principal" :> PyInt(5)) }

SoapJson ==
    PyDict("S" :> Lit("s") @@ "O" :> Lit("o") @@ "A" :> PyList(<<Lit("a")>>)
           @@ "P" :> PyList(<<Lit("p")>>))
AtestadoJson(dias) ==
    PyDict("texto" :> Lit("t") @@ "cid" :> Lit("J11") @@ "dias_afastamento" :> PyInt(dias))
Completions ==
    { Completion(Lit("doc"), "json", SoapJson),
      Completion(Lit("doc"), "json", AtestadoJson(2)),
      Completion(Lit("doc"), "json", AtestadoJson(0 - 1)),
      Completion(Lit("doc"), "json", PyDict("S" :> Lit("s"))),
      Completion(Lit("doc"), "json", PyDict("texto" :> PyInt(1))),
      Completion(Lit("doc"), "json", PyList(<<Lit("x")>>)),
      Completion(Lit("doc"), "json", PyNone),
      Completion(Lit("doc"), "json", EmptyDict),
      Completion(Lit("doc"), "garbage", PyNone),
      Completion(Lit("doc"), "none", PyNone) }

\* provider sets handed to LLMClient explicitly
ProviderLists == {<<"openai", "ollama">>}

----------------------------------------------------------------------------
(* generate_document, one step per provider.generate call *)

Call(p, outcome) == [p |-> p, outcome |-> outcome]
FallbackEvent == Call("fallback", "run")

\* range(self.max_retries): one attempt short
AttemptsNoExtra(retries) == retries

\* range(self.max_retries + 1)
Attempts(retries) == retries + 1

\* a loop that skips a provider
NextIndexSkip(i) == i + 2

\* the provider the for loop of generate_document takes next
NextIndex(i) == i + 1

\* a wait that does not grow
BackoffConstant(n) == 1

\* time.sleep(self.retry_backoff_s * (2**attempt)), in units of retry_backoff_s
Backoff(n) == 2 ^ n

NoOp == [name |-> "", key |-> <<>>, hit |-> FALSE, before |-> <<>>, usedBefore |-> <<>>]

Fail(error) ==
    /\ pc' = "raised"
    /\ result' = Failure(error)
    /\ UNCHANGED <<cache, used>>

\* lines 112-120 and 127-129: the result is cached and returned
Complete(res, key) ==
    /\ pc' = "done"
    /\ result' = res
    /\ cache' = CacheAfterSet(cache, key, res, cache_size)
    /\ used' = Forget(Touch(used, key), cache')

\* a fallback result that is returned without being cached
FallbackNotCached(doc_type, normalized, key) ==
    LET fb == fallback_rule_based(doc_type, normalized)
    IN IF fb.status = "raised" THEN Fail(fb.error)
       ELSE /\ pc' = "done"
            /\ result' = Result(fb.text, fb.json, "fallback")
            /\ UNCHANGED <<cache, used>>

\* lines 125-129
Fallback(doc_type, normalized, key) ==
    LET fb == fallback_rule_based(doc_type, normalized)
    IN IF fb.status = "raised" THEN Fail(fb.error)
       ELSE Complete(Result(fb.text, fb.json, "fallback"), key)

\* lines 93-102: up to the first provider call
Start(document_type, payload, context) ==
    /\ pc = "idle"
    /\ nreq < MaxRequests
    /\ cache0' = cache
    /\ sleeps' = <<>>
    /\ attempt' = 0
    /\ UNCHANGED <<avail, cache_size, max_retries, prev, nreq, op>>
    /\ LET doc_type == Upper(document_type)
           request == [op |-> "generate_document", document_type |-> document_type,
                       payload |-> payload, context |-> context, doc_type |-> doc_type,
                       normalized |-> EmptyDict, key |-> <<>>]
       IN IF NormalizePayloadRaises(payload)
          THEN /\ req' = request
               /\ Fail("AttributeError")
               /\ calls' = <<>>
               /\ pidx' = 0
               /\ UNCHANGED providers
          ELSE IF GetSchemaRaises(doc_type)
          THEN /\ req' = request
               /\ Fail("KeyError")
               /\ calls' = <<>>
               /\ pidx' = 0
               /\ UNCHANGED providers
          ELSE LET normalized == normalize_payload(payload)
                   key == CacheKey(doc_type, normalized, context)
                   provs == available_providers(providers, avail)
               IN /\ req' = [request EXCEPT !.normalized = normalized, !.key = key]
                  /\ IF CacheHit(cache, key)
                     THEN /\ pc' = "done"
                          /\ result' = CacheValue(cache, key)
                          /\ cache' = CacheAfterGet(cache, key)
                          /\ used' = Touch(used, key)
                          /\ calls' = <<>>
                          /\ pidx' = 0
                          /\ UNCHANGED providers
                     ELSE /\ providers' = provs
                          /\ IF provs = <<>>
                             THEN /\ calls' = <<FallbackEvent>>
                                  /\ pidx' = 0
                                  /\ Fallback(doc_type, normalized, key)
                             ELSE /\ pc' = "calling"
                                  /\ pidx' = 1
                                  /\ calls' = <<>>
                                  /\ UNCHANGED <<result, cache, used>>

\* line 123, then the next provider or lines 125-129
Advance(log) ==
    IF NextIndex(pidx) <= Len(providers)
    THEN /\ pidx' = NextIndex(pidx)
         /\ attempt' = 0
         /\ calls' = log
         /\ UNCHANGED <<pc, result, cache, used>>
    ELSE /\ calls' = Append(log, FallbackEvent)
         /\ UNCHANGED <<pidx, attempt>>
         /\ Fallback(req.doc_type, req.normalized, req.key)

\* provider.generate raises (ProviderError or any other Exception): lines 74-84
ProviderFails ==
    /\ pc = "calling"
    /\ UNCHANGED <<avail, providers, cache_size, max_retries, req, prev, cache0, nreq, op>>
    /\ LET log == Append(calls, Call(providers[pidx], "error"))
       IN IF attempt + 1 < Attempts(max_retries)
          THEN /\ sleeps' = Append(sleeps, Backoff(attempt))
               /\ attempt' = attempt + 1
               /\ calls' = log
               /\ UNCHANGED <<pc, pidx, result, cache, used>>
          ELSE /\ UNCHANGED sleeps
               /\ Advance(log)

\* provider.generate returns a completion: lines 72-73 and 105-123
ProviderResponds(response) ==
    /\ pc = "calling"
    /\ UNCHANGED <<avail, providers, cache_size, max_retries, req, prev, cache0, nreq, op,
                   sleeps>>
    /\ LET log == Append(calls, Call(providers[pidx], "response"))
           parsed == parse_completion(response)
       IN IF Truthy(parsed.json) /\ validate_document(req.doc_type, parsed.json)
          THEN /\ calls' = log
               /\ UNCHANGED <<pidx, attempt>>
               /\ Complete(Result(parsed.text, parsed.json, providers[pidx]), req.key)
          ELSE Advance(log)

\* the caller takes the result or the exception
Return ==
    /\ pc \in {"done", "raised"}
    /\ pc' = "idle"
    /\ prev' = [req |-> req, result |-> result]
    /\ nreq' = nreq + 1
    /\ req' = NoReq
    /\ result' = NoResult
    /\ calls' = <<>>
    /\ sleeps' = <<>>
    /\ pidx' = 0
    /\ attempt' = 0
    /\ UNCHANGED <<avail, providers, cache, cache_size, max_retries, cache0, used, op>>

\* a backend comes up or goes down between two requests
AvailabilityChanges(p) ==
    /\ pc = "idle"
    /\ nreq < MaxRequests
    /\ avail' = [avail EXCEPT ![p] = ~avail[p]]
    /\ UNCHANGED <<providers, cache, cache_size, max_retries, pc, req, pidx, attempt, calls,
                   sleeps, result, prev, cache0, nreq, used, op>>

\* the stages one provider.generate call takes the request through: the call
\* itself (line 104), then, for a completion, its parsing (line 105) and the
\* validation of its JSON (lines 106-118); the fallback generator closes the
\* provider loop (lines 125-126)
RECURSIVE CallStages(_)
CallStages(log) ==
    IF log = <<>> THEN <<>>
    ELSE (IF log[1].outcome = "response"
          THEN <<"PROVIDER_LOOP", "PARSE", "VALIDATE">>
          ELSE <<"PROVIDER_LOOP">>) \o CallStages(Tail(log))

\* the stages the request has been through so far, in the order of the
\* statements of generate_document: normalisation (line 94), prompt (lines
\* 95-96), cache lookup (lines 97-100), provider loop (lines 102-126), cache
\* store and return (lines 119-120, 128-129)
StagesOf ==
    IF req.op # "generate_document" THEN <<>>
    ELSE IF NormalizePayloadRaises(req.payload) THEN <<"NORMALIZE">>
    ELSE IF GetSchemaRaises(req.doc_type) THEN <<"NORMALIZE", "PROMPT">>
    ELSE <<"NORMALIZE", "PROMPT", "CACHE_LOOKUP">>
         \o (IF CacheHit(cache0, req.key) THEN <<"DONE">>
             ELSE CallStages(calls)
                  \o (IF pc = "done" THEN <<"CACHE_STORE", "DONE">> ELSE <<>>))

\* LLMClient.__init__: providers or build_providers()
Init ==
    /\ avail \in [ProviderNames -> BOOLEAN]
    /\ providers \in ProviderLists \cup {build_providers(avail)}
    /\ max_retries \in 0..MaxRetries
    /\ cache_size \in 1..MaxCacheSize
    /\ cache = <<>>
    /\ used = <<>>
    /\ pc = "idle"
    /\ req = NoReq
    /\ pidx = 0
    /\ attempt = 0
    /\ calls = <<>>
    /\ sleeps = <<>>
    /\ result = NoResult
    /\ prev = [req |-> NoReq, result |-> NoResult]
    /\ cache0 = <<>>
    /\ nreq = 0
    /\ op = NoOp

Next ==
    \/ \E document_type \in DocumentTypes, payload \in Payloads, context \in Contexts :
          Start(document_type, payload, context)
    \/ ProviderFails
    \/ \E response \in Completions : ProviderResponds(response)
    \/ Return
    \/ \E p \in ProviderNames : AvailabilityChanges(p)

Spec == Init /\ [][Next]_vars

----------------------------------------------------------------------------
(* The cache alone: any sequence of _cache_get and _cache_set on one client *)

CacheKeys == {Chunk("k1"), Chunk("k2"), Chunk("k3")}
CacheValues == {Result(Lit("v1"), EmptyDict, "ollama"), Result(Lit("v2"), EmptyDict, "fallback")}

CacheGet(key) ==
    /\ pc = "cache"
    /\ op' = [name |-> "get", key |-> key, hit |-> CacheHit(cache, key), before |-> cache,
              usedBefore |-> used]
    /\ result' = CacheValue(cache, key)
    /\ cache' = CacheAfterGet(cache, key)
    /\ used' = IF key \in Keys(cache) THEN Touch(used, key) ELSE used
    /\ UNCHANGED <<avail, providers, cache_size, max_retries, pc, req, pidx, attempt, calls,
                   sleeps, prev, cache0, nreq>>

CacheSet(key, value) ==
    /\ pc = "cache"
    /\ op' = [name |-> "set", key |-> key, hit |-> key \in Keys(cache), before |-> cache,
              usedBefore |-> used]
    /\ cache' = CacheAfterSet(cache, key, value, cache_size)
    /\ used' = Forget(Touch(used, key), cache')
    /\ UNCHANGED <<avail, providers, cache_size, max_retries, pc, req, pidx, attempt, calls,
                   sleeps, result, prev, cache0, nreq>>

InitCache ==
    /\ avail = [p \in ProviderNames |-> FALSE]
    /\ providers = <<>>
    /\ max_retries = 0
    /\ cache_size \in 1..MaxCacheSize
    /\ cache = <<>>
    /\ used = <<>>
    /\ pc = "cache"
    /\ req = NoReq
    /\ pidx = 0
    /\ attempt = 0
    /\ calls = <<>>
    /\ sleeps = <<>>
    /\ result = NoResult
    /\ prev = [req |-> NoReq, result |-> NoResult]
    /\ cache0 = <<>>
    /\ nreq = 0
    /\ op = NoOp

NextCache ==
    \/ \E key \in CacheKeys : CacheGet(key)
    \/ \E key \in CacheKeys, value \in CacheValues : CacheSet(key, value)

SpecCache == InitCache /\ [][NextCache]_vars

----------------------------------------------------------------------------
(* The fallback generator alone: fallback_rule_based on any type and payload *)

MaxFields == 2
LongText == 7000

FallbackTypes == SupportedTypes \cup {"EXAME"}
Fields ==
    {"pessoa", "identificacao", "bullets", "queixa_principal", "sinais_vitais", "motivo",
     "finalidade", "achados_texto", "dias_afastamento", "cid", "especialidade"}
FieldValues ==
    { PyNone, PyInt(0 - 1), Text(<<"a", ";", "b">>), PyStr(<<Run("x", LongText)>>),
      PyList(<<PyInt(1)>>), PyDict("nome" :> PyNone) }

\* the caller adds one field to the payload
SetField(k, v) ==
    /\ pc = "payload"
    /\ k \notin DOMAIN req.payload.d
    /\ Cardinality(DOMAIN req.payload.d) < MaxFields
    /\ req' = [req EXCEPT !.payload = Put(req.payload, k, v)]
    /\ UNCHANGED <<avail, providers, cache, cache_size, max_retries, pc, pidx, attempt, calls,
                   sleeps, result, prev, cache0, nreq, used, op>>

\* fallback_rule_based(document_type, payload)
CallFallback ==
    /\ pc = "payload"
    /\ pc' = "called"
    /\ result' = LET fb == fallback_rule_based(req.document_type, req.payload)
                 IN IF fb.status = "raised" THEN Failure(fb.error)
                    ELSE Result(fb.text, fb.json, "fallback")
    /\ UNCHANGED <<avail, providers, cache, cache_size, max_retries, req, pidx, attempt, calls,
                   sleeps, prev, cache0, nreq, used, op>>

InitFallback ==
    /\ avail = [p \in ProviderNames |-> FALSE]
    /\ providers = <<>>
    /\ max_retries = 0
    /\ cache_size = 1
    /\ cache = <<>>
    /\ used = <<>>
    /\ pc = "payload"
    /\ req \in {[NoReq EXCEPT !.op = "fallback_rule_based", !.document_type = t,
                              !.doc_type = Upper(t)] : t \in FallbackTypes}
    /\ pidx = 0
    /\ attempt = 0
    /\ calls = <<>>
    /\ sleeps = <<>>
    /\ result = NoResult
    /\ prev = [req |-> NoReq, result |-> NoResult]
    /\ cache0 = <<>>
    /\ nreq = 0
    /\ op = NoOp

NextFallback ==
    \/ \E k \in Fields, v \in FieldValues : SetField(k, v)
    \/ CallFallback

SpecFallback == InitFallback /\ [][NextFallback]_vars

----------------------------------------------------------------------------
(* validators.py: the plausibility rules                                   *)

\* the warning texts, without their accents
Alert ==
    [temp |-> "Temperatura fora de faixa plausivel (30-43 C).",
     cpf |-> "CPF com formato/quantidade de digitos invalido (esperado: 11).",
     cns |-> "CNS com formato/quantidade de digitos invalido (esperado: 15).",
     sem_dias |-> "Atestado sem 'dias_afastamento'.",
     dias_intervalo |-> "Dias de afastamento fora do intervalo usual (1-30).",
     dias_invalido |-> "Dias de afastamento invalido (nao numerico).",
     sem_cid |-> "Atestado sem CID informado.",
     retorno_intervalo |-> "retorno_em_dias fora do intervalo (1-180).",
     retorno_invalido |-> "retorno_em_dias invalido (nao numerico)."]
SoapAusenteAlert(campo) == "Campo SOAP ausente: " \o campo \o "."

TempMin == 30
TempMax == 43
CpfDigits == 11
CnsDigits == 15
DiasMin == 1
DiasMax == 30
RetornoMin == 1
RetornoMax == 180

\* x.get(...) on a value that is no dict raises AttributeError
GetRaises(v) == ~IsDict(v)

\* len(_digits_only(s)): the characters c of s with c.isdigit(); the digits of
\* a str are runs of one character
RECURSIVE DigitCount(_)
DigitCount(s) ==
    IF s = <<>> THEN 0
    ELSE (IF s[1].c \in DOMAIN DigitOf THEN s[1].n ELSE 0) + DigitCount(Tail(s))
RECURSIVE DigitItems(_)
DigitItems(items) ==
    IF items = <<>> THEN 0
    ELSE (IF IsDigits(items[1].s) THEN TextLen(items[1].s) ELSE 0) + DigitItems(Tail(items))
\* _digits_only iterates its argument and calls isdigit on each element
DigitsOnlyRaises(v) == ~Iterable(v) \/ (IsList(v) /\ ~AllStr(v.items))
DigitsOnlyError(v) == IF Iterable(v) THEN "AttributeError" ELSE "TypeError"
DigitsOnlyLen(v) == IF IsStr(v) THEN DigitCount(v.s) ELSE DigitItems(IterItems(v))

\* the range test with the bounds themselves out of range
TempAlertsInclusive(temp) ==
    IF temp.t # "none" /\ ~IntRaises(temp) /\ (IntOf(temp) <= TempMin \/ IntOf(temp) >= TempMax)
    THEN <<Alert.temp>> ELSE <<>>

\* lines 9-16: float(temp) raising is swallowed by the try
TempAlerts(temp) ==
    IF temp.t # "none" /\ ~IntRaises(temp) /\ (IntOf(temp) < TempMin \/ IntOf(temp) > TempMax)
    THEN <<Alert.temp>> ELSE <<>>

\* lines 22-29, for one identifier
IdAlerts(id, digits, alert) ==
    IF Truthy(id) /\ DigitsOnlyLen(id) # digits THEN <<alert>> ELSE <<>>

\* the range test starting at 0, as the schema's minimum does
AtestadoAlertsFromZero(saida_json) ==
    LET dias == Get(saida_json, "dias_afastamento")
    IN (IF dias.t = "none" THEN <<Alert.sem_dias>>
        ELSE IF IntRaises(dias) THEN <<Alert.dias_invalido>>
        ELSE IF IntOf(dias) < 0 \/ IntOf(dias) > DiasMax THEN <<Alert.dias_intervalo>>
        ELSE <<>>)
       \o (IF ~Truthy(Get(saida_json, "cid")) THEN <<Alert.sem_cid>> ELSE <<>>)

\* lines 32-44
AtestadoAlerts(saida_json) ==
    LET dias == Get(saida_json, "dias_afastamento")
    IN (IF dias.t = "none" THEN <<Alert.sem_dias>>
        ELSE IF IntRaises(dias) THEN <<Alert.dias_invalido>>
        ELSE IF IntOf(dias) < DiasMin \/ IntOf(dias) > DiasMax THEN <<Alert.dias_intervalo>>
        ELSE <<>>)
       \o (IF ~Truthy(Get(saida_json, "cid")) THEN <<Alert.sem_cid>> ELSE <<>>)

\* lines 45-56
SoapAlerts(saida_json) ==
    LET campos == <<"S", "O", "A", "P">>
        ausentes == SelectSeq(campos, LAMBDA campo : campo \notin DOMAIN saida_json.d)
        r == saida_json.d["retorno_em_dias"]
    IN [i \in 1..Len(ausentes) |-> SoapAusenteAlert(ausentes[i])]
       \o (IF "retorno_em_dias" \notin DOMAIN saida_json.d THEN <<>>
           ELSE IF IntRaises(r) THEN <<Alert.retorno_invalido>>
           ELSE IF IntOf(r) < RetornoMin \/ IntOf(r) > RetornoMax
           THEN <<Alert.retorno_intervalo>>
           ELSE <<>>)

Alertas(alertas) == [status |-> "returned", error |-> "", alertas |-> alertas]
RegrasRaised(error) == [status |-> "raised", error |-> error, alertas |-> <<>>]

\* validar_regras(tipo, saida_json, entrada)
validar_regras(tipo, saida_json, entrada) ==
    LET vitais == Or(Get(entrada, "sinais_vitais"), EmptyDict)
        ident == Or(Or(Get(saida_json, "identificacao"), Get(entrada, "identificacao")),
                    EmptyDict)
        cpf == Or(Get(ident, "cpf"), EmptyStr)
        cns == Or(Get(ident, "cns"), EmptyStr)
    IN IF GetRaises(vitais) \/ GetRaises(ident) THEN RegrasRaised("AttributeError")
       ELSE IF Truthy(cpf) /\ DigitsOnlyRaises(cpf) THEN RegrasRaised(DigitsOnlyError(cpf))
       ELSE IF Truthy(cns) /\ DigitsOnlyRaises(cns) THEN RegrasRaised(DigitsOnlyError(cns))
       ELSE Alertas(TempAlerts(Get(vitais, "temp"))
                    \o IdAlerts(cpf, CpfDigits, Alert.cpf)
                    \o IdAlerts(cns, CnsDigits, Alert.cns)
                    \o (IF tipo = "ATESTADO" THEN AtestadoAlerts(saida_json)
                        ELSE IF tipo = "SOAP" THEN SoapAlerts(saida_json)
                        ELSE <<>>))

----------------------------------------------------------------------------
(* The rules engine alone: validar_regras on any type, output and payload  *)

\* a key the caller leaves out
Absent == [t |-> "absent"]
\* the dict of the keys that are given
DictOf(f) == PyDict([k \in {x \in DOMAIN f : f[x] # Absent} |-> f[k]])
Digits(n) == PyStr(<<Run("1", n)>>)

RuleTypes == {"ATESTADO", "SOAP", "LAUDO"}
Temps ==
    { Absent, PyNone, PyInt(29), PyInt(30), PyInt(43), PyInt(44),
      Text(<<"4", "5">>), Text(<<"a">>), PyList(<<PyInt(45)>>) }
Cpfs ==
    { Absent, EmptyStr, Digits(11), Digits(9), Digits(12),
      PyStr(<<Run("1", 9), Run("-", 1), Run("1", 2)>>), PyInt(123) }
Cnss == { Absent, Digits(15), Digits(14), PyList(<<PyInt(1)>>) }
Diass ==
    { Absent, PyNone, PyInt(0), PyInt(1), PyInt(30), PyInt(31), Text(<<"5">>),
      Text(<<"a", "b">>), PyList(<<PyInt(1)>>) }
Cids == { Absent, EmptyStr, Lit("J11"), NaoInformado }
Retornos == { Absent, PyInt(0), PyInt(1), PyInt(180), PyInt(181), Text(<<"a">>) }
SectionSets == { {}, {"S"}, {"S", "O", "A"}, {"S", "O", "A", "P"} }
\* sinais_vitais and identificacao that are no mapping
NoMapping == Lit("x")

\* where the identificacao object is given: in the payload, in the output, in
\* neither, in the payload as a value that is no mapping, or in the payload
\* while the output has an identificacao of its own with a name only
Lados == {"entrada", "saida", "nenhum", "texto", "ambos"}
RuleInputs ==
    [tipo : RuleTypes \ {"SOAP"}, temp : Temps \cup {NoMapping}, cpf : Cpfs, cns : Cnss,
     lado : Lados, dias : Diass, cid : Cids, retorno : {Absent}, secoes : {{}}]
    \cup
    [tipo : {"SOAP"}, temp : Temps \cup {NoMapping}, cpf : Cpfs, cns : Cnss,
     lado : Lados, dias : {Absent}, cid : {Absent}, retorno : Retornos,
     secoes : SectionSets]

\* the identificacao object of the input, or the non-mapping value
IdentOf(in) ==
    IF in.lado = "texto" THEN NoMapping
    ELSE DictOf("cpf" :> in.cpf @@ "cns" :> in.cns)
EntradaOf(in) ==
    DictOf("sinais_vitais" :>
               (IF in.temp = NoMapping THEN NoMapping ELSE DictOf("temp" :> in.temp))
           @@ "identificacao" :>
               (IF in.lado \in {"entrada", "texto", "ambos"} THEN IdentOf(in) ELSE Absent))
SaidaOf(in) ==
    DictOf([k \in {"S", "O", "A", "P"} |->
                IF k \notin in.secoes THEN Absent
                ELSE IF k \in {"S", "O"} THEN Lit("s") ELSE PyList(<<Lit("a")>>)]
           @@ "dias_afastamento" :> in.dias @@ "cid" :> in.cid
           @@ "retorno_em_dias" :> in.retorno
           @@ "identificacao" :>
               (IF in.lado = "saida" THEN IdentOf(in)
                ELSE IF in.lado = "ambos" THEN PyDict("nome" :> Lit("n"))
                ELSE Absent))

\* validar_regras(tipo, saida_json, entrada)
CallRules ==
    /\ pc = "rules"
    /\ pc' = "checked"
    /\ result' = validar_regras(req.tipo, req.saida_json, req.entrada)
    /\ UNCHANGED <<avail, providers, cache, cache_size, max_retries, req, pidx, attempt, calls,
                   sleeps, prev, cache0, nreq, used, op>>

InitRules ==
    /\ avail = [p \in ProviderNames |-> FALSE]
    /\ providers = <<>>
    /\ max_retries = 0
    /\ cache_size = 1
    /\ cache = <<>>
    /\ used = <<>>
    /\ pc = "rules"
    /\ req \in {[op |-> "validar_regras", tipo |-> in.tipo, in |-> in,
                 saida_json |-> SaidaOf(in), entrada |-> EntradaOf(in)] : in \in RuleInputs}
    /\ pidx = 0
    /\ attempt = 0
    /\ calls = <<>>
    /\ sleeps = <<>>
    /\ result = NoResult
    /\ prev = [req |-> NoReq, result |-> NoResult]
    /\ cache0 = <<>>
    /\ nreq = 0
    /\ op = NoOp

NextRules == CallRules

SpecRules == InitRules /\ [][NextRules]_vars

----------------------------------------------------------------------------
(* pipeline.py: processar, behind the /api/generate endpoint of api/main.py. *)
(* llm.generate and schemas.SCHEMAS, which pipeline.py imports, are not in   *)
(* the sources: they are taken from the specification (sections 4.2 to 4.5). *)

\* normalizer.normalize_text: a falsy value is returned as it is, and a text
\* of one character is not capitalised
NormalizerTextRaises(v) == Truthy(v) /\ ~IsStr(v)
NormalizerText(v) ==
    IF ~Truthy(v) THEN v
    ELSE IF TextLen(v.s) > 1 THEN PyStr(Capitalize(Lower(v.s))) ELSE PyStr(Lower(v.s))

\* normalizer.normalize_payload
NormalizerPayloadRaises(payload) ==
    LET bullets == GetOr(payload, "bullets", EmptyList)
    IN \/ NormalizerTextRaises(GetOr(payload, "queixa_principal", EmptyStr))
       \/ /\ Truthy(bullets)
          /\ \/ ~Iterable(bullets)
             \/ \E i \in 1..Len(IterItems(bullets)) : NormalizerTextRaises(IterItems(bullets)[i])
NormalizerPayload(payload) ==
    LET bullets == GetOr(payload, "bullets", EmptyList)
    IN Put(Put(payload, "queixa_principal",
               NormalizerText(GetOr(payload, "queixa_principal", EmptyStr))),
           "bullets",
           IF Truthy(bullets)
           THEN PyList([i \in 1..Len(IterItems(bullets)) |-> NormalizerText(IterItems(bullets)[i])])
           ELSE EmptyList)

\* _montar_contexto raises when pessoa, identificacao or sinais_vitais is a
\* non-empty value that is no dict; its text only feeds the prompt
MontarContextoRaises(payload) ==
    \E k \in {"pessoa", "identificacao", "sinais_vitais"} :
        GetRaises(Or(Get(payload, k), EmptyDict))

\* schemas.SCHEMAS: the registry of the five document schemas
SCHEMAS == SCHEMA_MAP

\* jsonschema.validate(instance, schema) returns without raising
Validate(instance, tipo) == ValidObject(instance, SCHEMAS[tipo])

\* what llm.generate(prompt, dados_norm) hands back: the parsed completion of a
\* provider, not yet validated, or the output of the fallback generator
Generated(texto, json, provider) == [texto |-> texto, json |-> json, provider |-> provider]

RepairDefaultO == Lit("Sem alteracoes relevantes descritas.")
RepairDefaultP == PyList(<<Lit("Orientacoes gerais e retorno programado.")>>)
RepairDefaultDias == 1

\* identificacao of the repaired object (lines 50, 57, 64, 67)
RepairIdent(json_out, dados_norm) ==
    Or(Or(Get(json_out, "identificacao"), Get(dados_norm, "identificacao")), EmptyDict)

\* lines 43-67: the repair raises when json_out has no .get, or int() fails
RepairDias(json_out, dados_norm) ==
    Or(Get(json_out, "dias_afastamento"),
       Or(Get(dados_norm, "dias_afastamento"), PyInt(RepairDefaultDias)))
RepairRaises(tipo, json_out, dados_norm) ==
    IF tipo \in {"SOAP", "ATESTADO", "ENCAMINHAMENTO"}
    THEN ~IsDict(json_out) \/ (tipo = "ATESTADO" /\ IntRaises(RepairDias(json_out, dados_norm)))
    ELSE FALSE
RepairError(tipo, json_out, dados_norm) ==
    IF ~IsDict(json_out) THEN "AttributeError" ELSE IntError(RepairDias(json_out, dados_norm))

\* lines 43-67: the repaired object
Repair(tipo, texto, json_out, dados_norm) ==
    CASE tipo = "SOAP" ->
           PyDict("S" :> Or(Get(json_out, "S"), texto)
                  @@ "O" :> Or(Get(json_out, "O"), RepairDefaultO)
                  @@ "A" :> Or(Get(json_out, "A"),
                               PyList(<<GetOr(dados_norm, "queixa_principal", EmptyStr)>>))
                  @@ "P" :> Or(Get(json_out, "P"), RepairDefaultP)
                  @@ "referencias" :> Or(Get(json_out, "referencias"), EmptyList)
                  @@ "identificacao" :> RepairIdent(json_out, dados_norm))
      [] tipo = "ATESTADO" ->
           PyDict("texto" :> Or(Get(json_out, "texto"), texto)
                  @@ "cid" :> Or(Get(json_out, "cid"), Or(Get(dados_norm, "cid"), EmptyStr))
                  @@ "dias_afastamento" :> PyInt(IntOf(RepairDias(json_out, dados_norm)))
                  @@ "identificacao" :> RepairIdent(json_out, dados_norm))
      [] tipo = "ENCAMINHAMENTO" ->
           PyDict("texto" :> Or(Get(json_out, "texto"), texto)
                  @@ "especialidade" :>
                        Or(Get(json_out, "especialidade"),
                           Or(Get(dados_norm, "especialidade"), EmptyStr))
                  @@ "referencias" :> Or(Get(json_out, "referencias"), EmptyList)
                  @@ "identificacao" :> RepairIdent(json_out, dados_norm))
      [] OTHER ->
           Or(json_out,
              PyDict("texto" :> texto
                     @@ "identificacao" :> Or(Get(dados_norm, "identificacao"), EmptyDict)))

\* lines 72-78: the clock reading is one fixed text
Meta(tipo) == PyDict("gerado_em" :> Lit("2025-01-01T00:00:00") @@ "tipo_documento" :> Lit(tipo))

Saida(texto, json, alertas) ==
    [status |-> "returned", error |-> "", texto |-> texto, json |-> json, alertas |-> alertas]
Erro(error) ==
    [status |-> "raised", error |-> error, texto |-> EmptyStr, json |-> PyNone,
     alertas |-> <<>>]

\* lines 29-34: the resolved type, then the normalised payload
TipoRaises(payload) == ~IsStr(Or(Get(payload, "tipo_documento"), Lit("SOAP")))
TipoOf(payload) ==
    LET t == Or(Get(payload, "tipo_documento"), Lit("SOAP")).s
    IN IF t = <<>> THEN "" ELSE Upper(t[1].c)
ProcessarHead(payload) ==
    IF TipoRaises(payload) THEN Erro("AttributeError")
    ELSE IF TipoOf(payload) \notin DOMAIN SCHEMAS THEN Erro("ValueError")
    ELSE IF NormalizerPayloadRaises(payload) THEN Erro("AttributeError")
    ELSE IF MontarContextoRaises(NormalizerPayload(payload)) THEN Erro("AttributeError")
    ELSE Saida(EmptyStr, PyNone, <<>>)

\* the validation passed again: lines 70-78
RevalidateSkipped(json_out, tipo) == TRUE

Revalidate(json_out, tipo) == Validate(json_out, tipo)

\* lines 40-68: out.json, the repaired object, and the steps taken
Checked(json, status, steps) == [json |-> json, status |-> status, steps |-> steps]
ValidateAndRepair(tipo, texto, json_out, dados_norm) ==
    IF Validate(json_out, tipo) THEN Checked(json_out, "ok", <<"validate">>)
    ELSE IF RepairRaises(tipo, json_out, dados_norm)
    THEN Checked(json_out, RepairError(tipo, json_out, dados_norm), <<"validate", "repair">>)
    ELSE LET repaired == Repair(tipo, texto, json_out, dados_norm)
         IN Checked(repaired,
                    IF Revalidate(repaired, tipo) THEN "ok" ELSE "ValidationError",
                    <<"validate", "repair", "validate">>)

\* lines 70-78
ProcessarTail(tipo, texto, checked, dados_norm) ==
    IF checked.status # "ok" THEN Erro(checked.status)
    ELSE LET regras == validar_regras(tipo, checked.json, dados_norm)
         IN IF regras.status = "raised" THEN Erro(regras.error)
            ELSE Saida(texto, Put(checked.json, "_meta", Meta(tipo)), regras.alertas)

\* api/main.py generate: any exception becomes HTTP 400
HttpOk == 200
HttpBadRequest == 400
HttpStatus(saida) == IF saida.status = "raised" THEN HttpBadRequest ELSE HttpOk

(* One request through the endpoint *)

\* Payload.model_dump(): every field present, None or the declared default
\* where the client gave nothing
ModelDump(tipo, ident, queixa, vitais, cid, dias) ==
    PyDict("tipo_documento" :> tipo @@ "identificacao" :> ident @@ "pessoa" :> PyNone
           @@ "queixa_principal" :> queixa @@ "bullets" :> EmptyList
           @@ "sinais_vitais" :> vitais @@ "achados_exame" :> EmptyList
           @@ "hipoteses_previas" :> EmptyList @@ "preferencias_estilo" :> EmptyDict
           @@ "cid" :> cid @@ "dias_afastamento" :> dias @@ "especialidade" :> PyNone
           @@ "motivo" :> PyNone @@ "achados_texto" :> PyNone)

PipelinePayloads ==
    { ModelDump(tipo, ident, queixa, vitais, cid, dias) :
        tipo \in {Lit("SOAP"), Lit("soap"), Lit("ATESTADO"), Lit("ENCAMINHAMENTO"),
                  Lit("LAUDO"), Lit("EXAME"), EmptyStr},
        ident \in {PyNone, Identificacao(Lit("Ana"), Digits(9), PyNone),
                   Identificacao(PyNone, Digits(11), PyNone)},
        queixa \in {EmptyStr, Text(<<"D", "o", "r">>)},
        vitais \in {EmptyDict, PyDict("temp" :> PyInt(45))},
        cid \in {PyNone, Lit("J11")},
        dias \in {PyNone, PyInt(5)} }

ProviderJsons ==
    { SoapJson,
      PyDict("S" :> Lit("s") @@ "A" :> PyList(<<Lit("a")>>) @@ "P" :> PyList(<<Lit("p")>>)),
      PyDict("O" :> Lit("o") @@ "P" :> PyList(<<Lit("p")>>)),
      PyDict("S" :> PyInt(5) @@ "O" :> Lit("o") @@ "A" :> PyList(<<Lit("a")>>)
             @@ "P" :> PyList(<<Lit("p")>>)),
      AtestadoJson(2),
      AtestadoJson(0 - 1),
      PyDict("texto" :> Lit("t")),
      PyDict("texto" :> Lit("t") @@ "cid" :> Lit("J11")
             @@ "dias_afastamento" :> Text(<<"a", "b">>)),
      EmptyDict,
      PyList(<<PyInt(1)>>) }

NoGenerated == Generated(EmptyStr, PyNone, "")

\* the endpoint's answer
Respond(saida) ==
    [status |-> saida.status, error |-> saida.error, texto |-> saida.texto,
     json |-> saida.json, alertas |-> saida.alertas, http |-> HttpStatus(saida)]

\* processar from line 38 on, once generate has returned out
Finish(out) ==
    LET checked == ValidateAndRepair(req.tipo, out.texto, out.json, req.dados_norm)
    IN /\ pc' = "responded"
       /\ req' = [req EXCEPT !.generated = out]
       /\ calls' = checked.steps
       /\ result' = Respond(ProcessarTail(req.tipo, out.texto, checked, req.dados_norm))
       /\ UNCHANGED <<avail, providers, cache, cache_size, max_retries, pidx, attempt, sleeps,
                      prev, cache0, nreq, used, op>>

\* POST /api/generate: processar up to the call of generate (lines 29-37)
Receive(payload) ==
    /\ pc = "http"
    /\ LET head == ProcessarHead(payload)
       IN IF head.status = "raised"
          THEN /\ pc' = "responded"
               /\ req' = [op |-> "processar", payload |-> payload, tipo |-> "",
                          dados_norm |-> payload, generated |-> NoGenerated]
               /\ result' = Respond(head)
          ELSE /\ pc' = "generating"
               /\ req' = [op |-> "processar", payload |-> payload, tipo |-> TipoOf(payload),
                          dados_norm |-> NormalizerPayload(payload),
                          generated |-> NoGenerated]
               /\ UNCHANGED result
    /\ UNCHANGED <<avail, providers, cache, cache_size, max_retries, pidx, attempt, calls,
                   sleeps, prev, cache0, nreq, used, op>>

\* generate returns the parsed completion of a provider
ProviderGenerates(json) ==
    /\ pc = "generating"
    /\ Finish(Generated(Lit("doc"), json, "ollama"))

\* generate returns the output of the fallback generator, or that one raises
FallbackGenerates ==
    /\ pc = "generating"
    /\ LET fb == fallback_rule_based(req.tipo, req.dados_norm)
       IN IF fb.status = "raised"
          THEN /\ pc' = "responded"
               /\ result' = Respond(Erro(fb.error))
               /\ UNCHANGED <<avail, providers, cache, cache_size, max_retries, req, pidx,
                              attempt, calls, sleeps, prev, cache0, nreq, used, op>>
          ELSE Finish(Generated(fb.text, fb.json, "fallback"))

InitPipeline ==
    /\ avail = [p \in ProviderNames |-> FALSE]
    /\ providers = <<>>
    /\ max_retries = 0
    /\ cache_size = 1
    /\ cache = <<>>
    /\ used = <<>>
    /\ pc = "http"
    /\ req = NoReq
    /\ pidx = 0
    /\ attempt = 0
    /\ calls = <<>>
    /\ sleeps = <<>>
    /\ result = NoResult
    /\ prev = [req |-> NoReq, result |-> NoResult]
    /\ cache0 = <<>>
    /\ nreq = 0
    /\ op = NoOp

NextPipeline ==
    \/ \E payload \in PipelinePayloads : Receive(payload)
    \/ \E json \in ProviderJsons : ProviderGenerates(json)
    \/ FallbackGenerates

SpecPipeline == InitPipeline /\ [][NextPipeline]_vars

----------------------------------------------------------------------------
(* Concurrent requests on one LLMClient: each thread runs _cache_get or      *)
(* _cache_set, one OrderedDict call per step (the interpreter lock makes a   *)
(* single call atomic; LLMClient takes no lock of its own), and any thread   *)
(* may run between two steps of another.                                     *)

Threads == {"t1", "t2"}
MaxCalls == 2
ThreadKeys == {Chunk("k1"), Chunk("k2"), Chunk("k3")}
ThreadValue == Result(Lit("v1"), EmptyDict, "ollama")
NoCall == [name |-> "", key |-> <<>>, value |-> NoResult]

\* what every step of a thread leaves alone
ThreadFrame ==
    UNCHANGED <<avail, providers, cache_size, max_retries, pidx, attempt, calls, sleeps,
                prev, cache0, used, op>>

\* the call of thread t ends: it returns value, or raises error
ThreadReturns(t, value) ==
    /\ pc' = [pc EXCEPT ![t] = "idle"]
    /\ result' = [result EXCEPT ![t] = [status |-> "returned", error |-> "", value |-> value]]
ThreadRaises(t, error) ==
    /\ pc' = [pc EXCEPT ![t] = "idle"]
    /\ result' = [result EXCEPT ![t] = [status |-> "raised", error |-> error,
                                        value |-> NoResult]]
ThreadCalls(t, name, key, value) ==
    /\ pc[t] = "idle"
    /\ nreq[t] < MaxCalls
    /\ nreq' = [nreq EXCEPT ![t] = @ + 1]
    /\ req' = [req EXCEPT ![t] = [name |-> name, key |-> key, value |-> value]]

\* line 49 and the test of line 50
ThreadLookup(t, key) ==
    /\ ThreadCalls(t, "get", key, CacheValue(cache, key))
    /\ IF CacheHit(cache, key)
       THEN /\ pc' = [pc EXCEPT ![t] = "get_move"]
            /\ result' = [result EXCEPT ![t] = [status |-> "none", error |-> "",
                                                value |-> NoResult]]
       ELSE ThreadReturns(t, NoResult)
    /\ UNCHANGED cache
    /\ ThreadFrame

\* lines 51-52
ThreadGetMove(t) ==
    /\ pc[t] = "get_move"
    /\ IF req[t].key \in Keys(cache)
       THEN cache' = MoveToEnd(cache, req[t].key) /\ ThreadReturns(t, req[t].value)
       ELSE UNCHANGED cache /\ ThreadRaises(t, "KeyError")
    /\ UNCHANGED <<req, nreq>>
    /\ ThreadFrame

\* line 55
ThreadInsert(t, key, value) ==
    /\ ThreadCalls(t, "set", key, value)
    /\ cache' = SetItem(cache, key, value)
    /\ pc' = [pc EXCEPT ![t] = "set_move"]
    /\ result' = [result EXCEPT ![t] = [status |-> "none", error |-> "", value |-> NoResult]]
    /\ ThreadFrame

\* line 56
ThreadSetMove(t) ==
    /\ pc[t] = "set_move"
    /\ IF req[t].key \in Keys(cache)
       THEN /\ cache' = MoveToEnd(cache, req[t].key)
            /\ pc' = [pc EXCEPT ![t] = "set_len"]
            /\ UNCHANGED result
       ELSE UNCHANGED cache /\ ThreadRaises(t, "KeyError")
    /\ UNCHANGED <<req, nreq>>
    /\ ThreadFrame

\* line 57: the test of the while loop
ThreadLen(t) ==
    /\ pc[t] = "set_len"
    /\ IF Len(cache) > cache_size
       THEN pc' = [pc EXCEPT ![t] = "set_pop"] /\ UNCHANGED result
       ELSE ThreadReturns(t, NoResult)
    /\ UNCHANGED <<cache, req, nreq>>
    /\ ThreadFrame

\* line 58: popitem raises KeyError on an empty dictionary
ThreadPop(t) ==
    /\ pc[t] = "set_pop"
    /\ IF cache = <<>>
       THEN UNCHANGED <<cache, pc>> /\ ThreadRaises(t, "KeyError")
       ELSE /\ cache' = PopFirst(cache)
            /\ pc' = [pc EXCEPT ![t] = "set_len"]
            /\ UNCHANGED result
    /\ UNCHANGED <<req, nreq>>
    /\ ThreadFrame

InitThreads ==
    /\ avail = [p \in ProviderNames |-> FALSE]
    /\ providers = <<>>
    /\ max_retries = 0
    /\ cache_size \in 1..MaxCacheSize
    /\ cache = <<>>
    /\ used = <<>>
    /\ pc = [t \in Threads |-> "idle"]
    /\ req = [t \in Threads |-> NoCall]
    /\ pidx = 0
    /\ attempt = 0
    /\ calls = <<>>
    /\ sleeps = <<>>
    /\ result = [t \in Threads |-> [status |-> "none", error |-> "", value |-> NoResult]]
    /\ prev = [req |-> NoReq, result |-> NoResult]
    /\ cache0 = <<>>
    /\ nreq = [t \in Threads |-> 0]
    /\ op = NoOp

NextThreads ==
    \E t \in Threads :
        \/ \E key \in ThreadKeys : ThreadLookup(t, key)
        \/ ThreadGetMove(t)
        \/ \E key \in ThreadKeys : ThreadInsert(t, key, ThreadValue)
        \/ ThreadSetMove(t)
        \/ ThreadLen(t)
        \/ ThreadPop(t)

SpecThreads == InitThreads /\ [][NextThreads]_vars

----------------------------------------------------------------------------
(* validate_document alone, on SOAP objects with any of the sections left   *)
(* out or of a wrong kind                                                  *)

SoapS == { Absent, Lit("s"), PyStr(<<Run("x", LongText)>>), PyInt(5) }
SoapO == { Absent, Lit("o"), EmptyStr }
SoapA == { Absent, PyList(<<Lit("a")>>), PyList(<<PyInt(1)>>), Lit("a"), EmptyList }
SoapP == { Absent, PyList(<<Lit("p")>>) }
SoapIdents == { Absent, Identificacao(Lit("Paciente"), Digits(11), EmptyStr), NoMapping }
SoapObjects ==
    { DictOf("S" :> s @@ "O" :> o @@ "A" :> a @@ "P" :> p @@ "identificacao" :> ident) :
        s \in SoapS, o \in SoapO, a \in SoapA, p \in SoapP, ident \in SoapIdents }

\* validate_document("SOAP", payload): returns None or raises ValidationError
CallValidate ==
    /\ pc = "validate"
    /\ pc' = "validated"
    /\ result' = IF validate_document(req.document_type, req.payload)
                 THEN [status |-> "returned", error |-> ""]
                 ELSE [status |-> "raised", error |-> "ValidationError"]
    /\ UNCHANGED <<avail, providers, cache, cache_size, max_retries, req, pidx, attempt,
                   calls, sleeps, prev, cache0, nreq, used, op>>

InitValidate ==
    /\ avail = [p \in ProviderNames |-> FALSE]
    /\ providers = <<>>
    /\ max_retries = 0
    /\ cache_size = 1
    /\ cache = <<>>
    /\ used = <<>>
    /\ pc = "validate"
    /\ \E payload \in SoapObjects :
          req = [op |-> "validate_document", document_type |-> "SOAP", payload |-> payload]
    /\ pidx = 0
    /\ attempt = 0
    /\ calls = <<>>
    /\ sleeps = <<>>
    /\ result = [status |-> "none", error |-> ""]
    /\ prev = [req |-> NoReq, result |-> NoResult]
    /\ cache0 = <<>>
    /\ nreq = 0
    /\ op = NoOp

NextValidate == CallValidate

SpecValidate == InitValidate /\ [][NextValidate]_vars

----------------------------------------------------------------------------
(* generate_document on requests that differ a little: in the white space   *)
(* of one field, in the type, in the context                               *)

KeyTypes == {"PARECER", "LAUDO"}
KeyContexts == {Lit("ctx"), Lit("outro")}
KeyPayloads ==
    { PyDict("motivo" :> Text(<<"a", " ", " ", "b">>)),
      PyDict("motivo" :> Text(<<"a", " ", "b">>)),
      PyDict("motivo" :> Text(<<"a", "b">>)) }
KeyCompletions ==
    { Completion(Lit("doc"), "json", PyDict("texto" :> Lit("t"))),
      Completion(Lit("doc"), "none", PyNone) }

InitKeys ==
    /\ avail = [p \in ProviderNames |-> p = "ollama"]
    /\ providers = build_providers(avail)
    /\ max_retries = 0
    /\ cache_size = MaxCacheSize
    /\ cache = <<>>
    /\ used = <<>>
    /\ pc = "idle"
    /\ req = NoReq
    /\ pidx = 0
    /\ attempt = 0
    /\ calls = <<>>
    /\ sleeps = <<>>
    /\ result = NoResult
    /\ prev = [req |-> NoReq, result |-> NoResult]
    /\ cache0 = <<>>
    /\ nreq = 0
    /\ op = NoOp

NextKeys ==
    \/ \E document_type \in KeyTypes, payload \in KeyPayloads, context \in KeyContexts :
          Start(document_type, payload, context)
    \/ ProviderFails
    \/ \E response \in KeyCompletions : ProviderResponds(response)
    \/ Return

SpecKeys == InitKeys /\ [][NextKeys]_vars

----------------------------------------------------------------------------
(* llm.py: _parse_completion, on completions written as runs of the pieces  *)
(* the parser tells apart: the markers "JSON:" and "TEXTO:", braces,        *)
(* brackets, back-ticks ("tick"), blanks, a word of prose ("x"), a JSON     *)
(* member ("kv", the text "k": null) and digits.  No piece holds part of a  *)
(* marker or of a number.                                                   *)

Marker == "JSON:"
TextoMarker == "TEXTO:"
\* the nesting depth at which json.loads gives up with RecursionError (the
\* interpreter's recursion limit), and the longest digit string int() converts
RecursionLimit == 1000
DigitLimit == 4300

\* str.find(c) and str.rfind(c): 0 when c does not occur
Find(s, c) == IF \E i \in 1..Len(s) : s[i].c = c
              THEN CHOOSE i \in 1..Len(s) : s[i].c = c /\ \A j \in 1..(i - 1) : s[j].c # c
              ELSE 0
RFind(s, c) == IF \E i \in 1..Len(s) : s[i].c = c
               THEN CHOOSE i \in 1..Len(s) : s[i].c = c /\ \A j \in (i + 1)..Len(s) : s[j].c # c
               ELSE 0

\* response.split("JSON:", maxsplit=1)
SplitAtMarker(s) ==
    LET i == Find(s, Marker)
    IN [text |-> SubSeq(s, 1, i - 1),
        block |-> (IF s[i].n > 1 THEN <<Run(Marker, s[i].n - 1)>> ELSE <<>>)
                  \o SubSeq(s, i + 1, Len(s))]

\* response[start:end] and response[:start] of lines 159-162
SplitAtBraces(s) ==
    LET start == Find(s, "{")
        end == RFind(s, "}")
    IN [text |-> SubSeq(s, 1, start - 1), block |-> SubSeq(s, start, end)]

\* the brace rule tried before the marker rule
SplitBracesFirst(s) ==
    IF Find(s, "{") # 0 /\ Find(s, "}") # 0 THEN SplitAtBraces(s)
    ELSE IF Find(s, Marker) # 0 THEN SplitAtMarker(s)
    ELSE [text |-> s, block |-> <<>>]

\* lines 152-162
SplitCompletion(s) ==
    IF Find(s, Marker) # 0 THEN SplitAtMarker(s)
    ELSE IF Find(s, "{") # 0 /\ Find(s, "}") # 0 THEN SplitAtBraces(s)
    ELSE [text |-> s, block |-> <<>>]

\* text_block.replace("TEXTO:", "").strip()
CleanText(s) == Strip(SelectSeq(s, LAMBDA r : r.c # TextoMarker))

\* str.strip of back-ticks and newlines
Tick == "tick"
RECURSIVE StripTicks(_)
StripTicks(s) ==
    IF s # <<>> /\ s[1].c = Tick THEN StripTicks(Tail(s))
    ELSE IF s # <<>> /\ s[Len(s)].c = Tick THEN StripTicks(SubSeq(s, 1, Len(s) - 1))
    ELSE s

\* json.loads: one value from the front of the pieces (blanks taken out); the
\* value, what is left, and the exception if one is raised
Parsed(value, rest) == [status |-> "ok", value |-> value, rest |-> rest]
ParseError(error) == [status |-> error, value |-> PyNone, rest |-> <<>>]
RECURSIVE JsonValue(_)
JsonValue(v) ==
    IF v = <<>> THEN ParseError("JSONDecodeError")
    ELSE IF v[1].c = "[" /\ v[1].n >= RecursionLimit THEN ParseError("RecursionError")
    ELSE IF v[1].c = "1" /\ v[1].n > DigitLimit THEN ParseError("ValueError")
    ELSE IF v[1].n # 1 THEN ParseError("JSONDecodeError")
    ELSE IF v[1].c = "{"
    THEN IF Len(v) >= 2 /\ v[2] = Run("}", 1) THEN Parsed(EmptyDict, SubSeq(v, 3, Len(v)))
         ELSE IF Len(v) >= 3 /\ v[2] = Run("kv", 1) /\ v[3] = Run("}", 1)
         THEN Parsed(PyDict("k" :> PyNone), SubSeq(v, 4, Len(v)))
         ELSE ParseError("JSONDecodeError")
    ELSE IF v[1].c = "["
    THEN IF Len(v) >= 2 /\ v[2] = Run("]", 1) THEN Parsed(EmptyList, SubSeq(v, 3, Len(v)))
         ELSE LET item == JsonValue(Tail(v))
              IN IF item.status # "ok" THEN item
                 ELSE IF item.rest # <<>> /\ item.rest[1] = Run("]", 1)
                 THEN Parsed(PyList(<<item.value>>), Tail(item.rest))
                 ELSE ParseError("JSONDecodeError")
    ELSE ParseError("JSONDecodeError")
JsonLoads(s) ==
    LET parsed == JsonValue(SelectSeq(s, LAMBDA r : ~IsSpace(r)))
    IN IF parsed.status = "ok" /\ parsed.rest # <<>> THEN ParseError("JSONDecodeError")
       ELSE parsed

\* _parse_completion: lines 151-172
ParseCompletion(response) ==
    LET split == SplitCompletion(response)
        loaded == JsonLoads(StripTicks(Strip(split.block)))
        \* the return of line 172; text_block and json_block as lines 152-162
        \* left them are kept beside it
        returns(json_payload) ==
            [status |-> "returned", error |-> "", text |-> CleanText(split.text),
             json |-> json_payload, text_block |-> split.text, json_block |-> split.block]
    IN IF split.block = <<>> THEN returns(EmptyDict)
       ELSE IF loaded.status = "ok" THEN returns(loaded.value)
       ELSE IF loaded.status = "JSONDecodeError" THEN returns(EmptyDict)
       ELSE [status |-> "raised", error |-> loaded.status, text |-> <<>>, json |-> PyNone,
             text_block |-> split.text, json_block |-> split.block]

(* _parse_completion alone, on any short completion and some longer ones *)

Deep == 100000
Long == 5000
Pieces ==
    { Run(c, 1) : c \in {Marker, TextoMarker, "{", "}", "[", "]", Tick, " ", "x", "kv"} }
    \cup {Run("[", Deep), Run("1", Long)}
MaxPieces == 4
WordsUpTo(n) == UNION { [1..k -> Pieces] : k \in 0..n }
LongerCompletions ==
    { <<Run("x", 1), Run(" ", 1), Run("{", 1), Run(" ", 1), Run(Marker, 1), Run(" ", 1),
        Run("{", 1), Run("}", 1), Run(" ", 1), Run("}", 1)>>,
      <<Run(TextoMarker, 1), Run(" ", 1), Run("x", 1), Run(" ", 1), Run(Marker, 1),
        Run(" ", 1), Run(Tick, 3), Run("{", 1), Run("kv", 1), Run("}", 1), Run(Tick, 3)>>,
      <<Run("x", 1), Run(" ", 1), Run("{", 1), Run("kv", 1), Run("}", 1), Run(" ", 1),
        Run("x", 1), Run("}", 1), Run("x", 1)>>,
      <<Run("x", 1), Run(Marker, 2), Run("{", 1), Run("}", 1)>> }
Completions4 == WordsUpTo(MaxPieces) \cup LongerCompletions

CallParse ==
    /\ pc = "parse"
    /\ pc' = "parsed"
    /\ result' = ParseCompletion(req.response)
    /\ UNCHANGED <<avail, providers, cache, cache_size, max_retries, req, pidx, attempt,
                   calls, sleeps, prev, cache0, nreq, used, op>>

InitParse ==
    /\ avail = [p \in ProviderNames |-> FALSE]
    /\ providers = <<>>
    /\ max_retries = 0
    /\ cache_size = 1
    /\ cache = <<>>
    /\ used = <<>>
    /\ pc = "parse"
    /\ \E response \in Completions4 : req = [op |-> "_parse_completion", response |-> response]
    /\ pidx = 0
    /\ attempt = 0
    /\ calls = <<>>
    /\ sleeps = <<>>
    /\ result = [status |-> "none", error |-> "", text |-> <<>>, json |-> PyNone,
                 text_block |-> <<>>, json_block |-> <<>>]
    /\ prev = [req |-> NoReq, result |-> NoResult]
    /\ cache0 = <<>>
    /\ nreq = 0
    /\ op = NoOp

NextParse == CallParse

SpecParse == InitParse /\ [][NextParse]_vars

----------------------------------------------------------------------------
(* llm.py: revise_text, one step per provider.generate call *)

\* make_cache_key("revision", sanitize_text(texto)): no params
RevisionKey(texto) == Chunk("revision") \o Chunk("::") \o sanitize_text(texto.s)

\* the result dict of revise_text: text and provider
Revised(text, provider) ==
    [status |-> "returned", error |-> "", text |-> text, provider |-> provider]

\* a fallback that hands the text back as it came
RevisionFallbackRaw(texto) == Revised(texto, "fallback")

\* lines 145-146
RevisionFallback(texto) == Revised(PyStr(sanitize_text(texto.s)), "fallback")

RevisionCall(p, outcome, response) == [p |-> p, outcome |-> outcome, response |-> response]

\* lines 141-142 and 147-148
ReviseComplete(res) ==
    /\ pc' = "done"
    /\ result' = res
    /\ cache' = CacheAfterSet(cache, req.key, res, cache_size)
    /\ used' = Forget(Touch(used, req.key), cache')

\* lines 131-137: up to the first provider call
ReviseStart(texto) ==
    /\ pc = "idle"
    /\ nreq < MaxRequests
    /\ cache0' = cache
    /\ sleeps' = <<>>
    /\ attempt' = 0
    /\ calls' = <<>>
    /\ UNCHANGED <<avail, cache_size, max_retries, prev, nreq, op>>
    /\ LET key == RevisionKey(texto)
           provs == available_providers(providers, avail)
       IN /\ req' = [op |-> "revise_text", texto |-> texto, key |-> key]
          /\ IF CacheHit(cache, key)
             THEN /\ pc' = "done"
                  /\ result' = CacheValue(cache, key)
                  /\ cache' = CacheAfterGet(cache, key)
                  /\ used' = Touch(used, key)
                  /\ pidx' = 0
                  /\ UNCHANGED providers
             ELSE /\ providers' = provs
                  /\ IF provs = <<>>
                     THEN /\ pidx' = 0
                          /\ pc' = "done"
                          /\ result' = RevisionFallback(texto)
                          /\ cache' = CacheAfterSet(cache, key, RevisionFallback(texto),
                                                    cache_size)
                          /\ used' = Forget(Touch(used, key), cache')
                     ELSE /\ pc' = "revising"
                          /\ pidx' = 1
                          /\ UNCHANGED <<result, cache, used>>

\* line 144, then the next provider or lines 145-148
ReviseAdvance(log) ==
    /\ calls' = log
    /\ IF NextIndex(pidx) <= Len(providers)
       THEN /\ pidx' = NextIndex(pidx)
            /\ attempt' = 0
            /\ UNCHANGED <<pc, result, cache, used>>
       ELSE /\ UNCHANGED <<pidx, attempt>>
            /\ ReviseComplete(RevisionFallback(req.texto))

\* provider.generate raises: lines 74-84 of _call_provider
ReviseProviderFails ==
    /\ pc = "revising"
    /\ UNCHANGED <<avail, providers, cache_size, max_retries, req, prev, cache0, nreq, op>>
    /\ LET log == Append(calls, RevisionCall(providers[pidx], "error", PyNone))
       IN IF attempt + 1 < Attempts(max_retries)
          THEN /\ sleeps' = Append(sleeps, Backoff(attempt))
               /\ attempt' = attempt + 1
               /\ calls' = log
               /\ UNCHANGED <<pc, pidx, result, cache, used>>
          ELSE /\ UNCHANGED sleeps
               /\ ReviseAdvance(log)

\* provider.generate returns: lines 139-144; revised.strip() raises inside the
\* try when the provider returned no str
ReviseProviderResponds(response) ==
    /\ pc = "revising"
    /\ UNCHANGED <<avail, providers, cache_size, max_retries, req, prev, cache0, nreq, op,
                   sleeps>>
    /\ LET log == Append(calls, RevisionCall(providers[pidx], "response", response))
       IN IF IsStr(response)
          THEN /\ calls' = log
               /\ UNCHANGED <<pidx, attempt>>
               /\ ReviseComplete(Revised(PyStr(Strip(response.s)), providers[pidx]))
          ELSE ReviseAdvance(log)

Texts ==
    { EmptyStr, Text(<<" ", "a", " ", " ", "b", " ">>), Text(<<"a", " ", "b">>),
      Text(<<"a", "b">>) }
Revisions == { Text(<<" ", "r", " ">>), EmptyStr, PyNone }

NextRevise ==
    \/ \E texto \in Texts : ReviseStart(texto)
    \/ ReviseProviderFails
    \/ \E response \in Revisions : ReviseProviderResponds(response)
    \/ Return
    \/ \E p \in ProviderNames : AvailabilityChanges(p)

SpecRevise == Init /\ [][NextRevise]_vars

----------------------------------------------------------------------------
(* Claims *)

\* C1: whenever generate_document returns a result, its structured JSON
\* validates against the schema of the resolved document type.
ReturnedJsonValidates ==
    (pc = "done" /\ req.op = "generate_document")
        => validate_document(req.doc_type, result.json)

\* C2: for a supported document type generate_document always returns a result
\* and never raises, whatever the providers do and the payload holds.
SupportedTypeNeverRaises ==
    (pc = "raised" /\ req.op = "generate_document") => req.doc_type \notin SupportedTypes

\* C3: a request for an unsupported document type is rejected with an error at
\* once (the schema-lookup KeyError, unless normalising the payload has already
\* raised): no provider call, no retry wait, no fallback run, and the cache as
\* it was.
UnsupportedTypeRejected ==
    (req.op = "generate_document" /\ req.doc_type \notin SupportedTypes)
        => /\ pc = "raised"
           /\ result.status = "raised"
           /\ result.error =
                 (IF NormalizePayloadRaises(req.payload) THEN "AttributeError" ELSE "KeyError")
           /\ calls = <<>>
           /\ sleeps = <<>>
           /\ cache = cache0
           /\ used = [i \in 1..Len(cache0) |-> cache0[i].key]

UnsupportedTypeWitness ==
    /\ pc = "raised"
    /\ req.document_type = "EXAME"
    /\ result.error = "KeyError"
    /\ cache # <<>>
    /\ cache = cache0

FallbackNeverRaises ==
    (pc = "called" /\ req.op = "fallback_rule_based") => result.status = "returned"

CallsOf(p) == SelectSeq(calls, LAMBDA e : e.p = p)
PositionOf(p) == CHOOSE i \in 1..Len(providers) : providers[i] = p
AllErrors(cs) == \A i \in 1..Len(cs) : cs[i].outcome = "error"
\* the orchestrator has moved on from provider p
Left(p) == pc \in {"done", "raised"} \/ (pc = "calling" /\ PositionOf(p) < pidx)

\* C6: a provider whose generate fails on every attempt is called exactly
\* max_retries + 1 times before the orchestrator moves on, and no provider is
\* ever called more often than that in one request.
FailingProviderAttempts ==
    \A p \in ProviderNames :
        LET cs == CallsOf(p)
        IN /\ Len(cs) <= max_retries + 1
           /\ (cs # <<>> /\ AllErrors(cs) /\ Left(p)) => Len(cs) = max_retries + 1

FailingProviderWitness ==
    /\ pc = "calling"
    /\ pidx = 2
    /\ max_retries = 2
    /\ Len(CallsOf(providers[1])) = 3
    /\ AllErrors(CallsOf(providers[1]))

IsFallbackEvent(e) == e.p = "fallback"
\* the call at position k ended its provider's turn: a completion came back, or
\* it was the last allowed attempt
Finished(k) ==
    \/ calls[k].outcome = "response"
    \/ Len(SelectSeq(SubSeq(calls, 1, k), LAMBDA e : e.p = calls[k].p)) = max_retries + 1

\* C7: providers are tried one after another in the order of the provider set:
\* the first call goes to the first provider, each later call goes to the same
\* provider (after an error) or to the next one (after the previous finished),
\* and the fallback generator runs last, only after the last provider finished.
ProvidersTriedInOrder ==
    LET n == Len(calls)
    IN /\ \A k \in 1..n : IsFallbackEvent(calls[k]) => k = n
       /\ \A k \in 1..n :
             ~IsFallbackEvent(calls[k]) => \E i \in 1..Len(providers) : providers[i] = calls[k].p
       /\ (n >= 1 /\ ~IsFallbackEvent(calls[1])) => PositionOf(calls[1].p) = 1
       /\ \A k \in 1..(n - 1) :
             ~IsFallbackEvent(calls[k + 1]) =>
                \/ /\ PositionOf(calls[k + 1].p) = PositionOf(calls[k].p)
                   /\ calls[k].outcome = "error"
                   /\ ~Finished(k)
                \/ /\ PositionOf(calls[k + 1].p) = PositionOf(calls[k].p) + 1
                   /\ Finished(k)
       /\ (n >= 1 /\ IsFallbackEvent(calls[n])) =>
             \/ providers = <<>> /\ n = 1
             \/ /\ n >= 2
                /\ PositionOf(calls[n - 1].p) = Len(providers)
                /\ Finished(n - 1)
       /\ (pc = "done" /\ result.provider = "fallback" /\ calls # <<>>) =>
             IsFallbackEvent(calls[n])
       /\ (pc = "done" /\ result.provider # "fallback" /\ calls # <<>>) =>
             /\ calls[n] = Call(result.provider, "response")
             /\ providers[pidx] = result.provider

ProvidersTriedInOrderWitness ==
    /\ pc = "done"
    /\ result.provider = "fallback"
    /\ providers = <<"openai", "ollama">>
    /\ max_retries = 2
    /\ Len(calls) = 7
    /\ AllErrors(SubSeq(calls, 1, 6))

\* C8: a provider whose is_available() is false is never called.
UnavailableNeverCalled ==
    \A k \in 1..Len(calls) : calls[k].p \in ProviderNames => avail[calls[k].p]

SameRequest(a, b) ==
    /\ a.doc_type = b.doc_type
    /\ a.normalized = b.normalized
    /\ a.context = b.context

\* C9: when the request that was just answered is issued again, the second call
\* returns the same result and makes no provider call and no fallback run.
RepeatedRequestHitsCache ==
    (/\ pc = "done"
     /\ req.op = "generate_document"
     /\ prev.result.status = "returned"
     /\ SameRequest(req, prev.req))
        => /\ result = prev.result
           /\ calls = <<>>
           /\ sleeps = <<>>

RepeatedRequestWitness ==
    /\ pc = "done"
    /\ prev.result.status = "returned"
    /\ prev.result.provider = "ollama"
    /\ SameRequest(req, prev.req)
    /\ result = prev.result

KeyOrder(c) == [i \in 1..Len(c) |-> c[i].key]

\* C10: the cache never holds more than cache_size entries and its order is the
\* order of last use; inserting a new key into a full cache removes exactly the
\* least recently used entry and nothing else, any other insert removes nothing,
\* and a hit moves the entry to the most recent end without changing the rest.
CacheIsLRU ==
    /\ Len(cache) <= cache_size
    /\ KeyOrder(cache) = used
    /\ (op.name = "set" /\ ~op.hit /\ Len(op.before) = cache_size) =>
          /\ Len(cache) = cache_size
          /\ Keys(cache) = (Keys(op.before) \ {op.usedBefore[1]}) \cup {op.key}
          /\ \A k \in Keys(cache) \ {op.key} : CacheValue(cache, k) = CacheValue(op.before, k)
    /\ (op.name = "set" /\ (op.hit \/ Len(op.before) < cache_size)) =>
          /\ Keys(cache) = Keys(op.before) \cup {op.key}
          /\ \A k \in Keys(cache) \ {op.key} : CacheValue(cache, k) = CacheValue(op.before, k)
    /\ (op.name = "get" /\ op.hit) =>
          /\ cache[Len(cache)].key = op.key
          /\ result = CacheValue(op.before, op.key)
          /\ Without(cache, op.key) = Without(op.before, op.key)
          /\ Len(cache) > 1 => cache[1].key # op.key
    /\ (op.name = "get" /\ ~op.hit) => cache = op.before /\ result = NoResult

CacheIsLRUWitness ==
    /\ op.name = "set"
    /\ ~op.hit
    /\ cache_size = 2
    /\ KeyOrder(op.before) = <<Chunk("k2"), Chunk("k1")>>
    /\ op.key = Chunk("k3")
    /\ KeyOrder(cache) = <<Chunk("k1"), Chunk("k3")>>

\* C15: validar_regras never raises: for every document type, structured
\* output and payload it returns a list of warnings.
RulesNeverRaise ==
    (pc = "checked" /\ req.op = "validar_regras") => result.status = "returned"

Count(seq, x) == Len(SelectSeq(seq, LAMBDA a : a = x))
\* a number, or text that float() and int() read as one
Numeric(v) == IsInt(v) \/ (IsStr(v) /\ IsDigits(v.s))
NumberOf(v) == IF IsInt(v) THEN v.n ELSE DigitsValue(v.s, 0)
\* the identifier the rule reads: the one of the output's identificacao when the
\* output has a non-empty one, else the one of the payload's identificacao
IdRead(in, id) == IF in.lado \in {"entrada", "saida"} THEN id ELSE Absent
IdBad(id, digits) == IsStr(id) /\ id # EmptyStr /\ DigitCount(id.s) # digits
OneIf(condition) == IF condition THEN 1 ELSE 0

\* C16: the temperature rule and the two identifier rules each add exactly one
\* warning when their own condition holds and none otherwise, whatever the
\* other two do: temperature below 30 or above 43 (30 and 43 add none), CPF
\* non-empty with a digit count other than 11, CNS non-empty with a digit count
\* other than 15.
VitalAndIdRulesIndependent ==
    (pc = "checked" /\ req.op = "validar_regras" /\ result.status = "returned") =>
        /\ Count(result.alertas, Alert.temp) =
              OneIf(Numeric(req.in.temp)
                    /\ (NumberOf(req.in.temp) < 30 \/ NumberOf(req.in.temp) > 43))
        /\ Count(result.alertas, Alert.cpf) = OneIf(IdBad(IdRead(req.in, req.in.cpf), 11))
        /\ Count(result.alertas, Alert.cns) = OneIf(IdBad(IdRead(req.in, req.in.cns), 15))

VitalAndIdRulesWitness ==
    /\ pc = "checked"
    /\ req.op = "validar_regras"
    /\ req.in.temp = PyInt(44)
    /\ req.in.cpf = Digits(9)
    /\ req.in.cns = Digits(14)
    /\ req.tipo = "LAUDO"
    /\ result.alertas = <<Alert.temp, Alert.cpf, Alert.cns>>

\* C17: for ATESTADO, validar_regras adds the missing-days warning when
\* dias_afastamento is absent (or null), the not-numeric warning when it is
\* present and no number, the out-of-range warning when it is a number below 1
\* or above 30, and none of the three for 1..30; it adds the missing-CID warning
\* exactly when cid is absent or empty.  For other types it adds none of them.
AtestadoRules ==
    (pc = "checked" /\ req.op = "validar_regras" /\ result.status = "returned") =>
        LET dias == req.in.dias
            missing == dias \in {Absent, PyNone}
            atestado == req.tipo = "ATESTADO"
        IN /\ Count(result.alertas, Alert.sem_dias) = OneIf(atestado /\ missing)
           /\ Count(result.alertas, Alert.dias_invalido) =
                 OneIf(atestado /\ ~missing /\ ~Numeric(dias))
           /\ Count(result.alertas, Alert.dias_intervalo) =
                 OneIf(atestado /\ ~missing /\ Numeric(dias)
                       /\ (NumberOf(dias) < 1 \/ NumberOf(dias) > 30))
           /\ Count(result.alertas, Alert.sem_cid) =
                 OneIf(atestado /\ req.in.cid \in {Absent, EmptyStr})

AtestadoRulesWitness ==
    /\ pc = "checked"
    /\ req.op = "validar_regras"
    /\ req.tipo = "ATESTADO"
    /\ req.in.dias = PyInt(31)
    /\ req.in.cid = EmptyStr
    /\ result.alertas = <<Alert.dias_intervalo, Alert.sem_cid>>

SoapSections == {"S", "O", "A", "P"}
Processed == pc = "responded" /\ req.op = "processar" /\ req.generated # NoGenerated
\* the provider's object lacks a required SOAP section and every section it has
\* is valid and non-empty
ProviderMissesSection ==
    /\ Processed
    /\ req.tipo = "SOAP"
    /\ req.generated.provider # "fallback"
    /\ IsDict(req.generated.json)
    /\ SoapSections \ DOMAIN req.generated.json.d # {}
    /\ \A k \in SoapSections \cap DOMAIN req.generated.json.d :
          /\ ValidProp(req.generated.json.d[k], SOAP_SCHEMA.props[k])
          /\ Truthy(req.generated.json.d[k])
    /\ fallback_rule_based(req.tipo, req.dados_norm).status = "returned"

\* C12: when a provider's SOAP object lacks a required section, the returned
\* JSON has that section as the deterministic fallback generator writes it for
\* the same payload, and keeps every valid non-empty section of the provider.
MissingSectionFromFallback ==
    ProviderMissesSection =>
        /\ result.status = "returned"
        /\ \A k \in SoapSections :
              Get(result.json, k) =
                 IF k \in DOMAIN req.generated.json.d
                 THEN req.generated.json.d[k]
                 ELSE Get(fallback_rule_based(req.tipo, req.dados_norm).json, k)

\* the object processar returned, without the _meta it attaches at the end
Body(json) == PyDict([k \in DOMAIN json.d \ {"_meta"} |-> json.d[k]])
RepairCompleted ==
    /\ ~Validate(req.generated.json, req.tipo)
    /\ ~RepairRaises(req.tipo, req.generated.json, req.dados_norm)

BadRequestOnlyForUnsupportedType ==
    (pc = "responded" /\ req.op = "processar" /\ result.http = HttpBadRequest) =>
        /\ result.error = "ValueError"
        /\ req.generated = NoGenerated
        /\ ~TipoRaises(req.payload)
        /\ TipoOf(req.payload) \notin DOMAIN SCHEMAS

\* an ATESTADO request without cid and dias_afastamento that came back
NoCidNoDias ==
    /\ Processed
    /\ req.tipo = "ATESTADO"
    /\ Get(req.payload, "cid") = PyNone
    /\ Get(req.payload, "dias_afastamento") = PyNone
    /\ result.status = "returned"
ProviderGaveNone ==
    /\ IsDict(req.generated.json)
    /\ {"cid", "dias_afastamento"} \cap DOMAIN req.generated.json.d = {}

\* C18: for an ATESTADO request without cid and dias_afastamento, which no
\* provider supplies either, the returned JSON has dias_afastamento 3 and cid
\* "nao informado", whether it is the fallback's output or a repaired object.
AtestadoDefaults ==
    (NoCidNoDias /\ (req.generated.provider = "fallback" \/ ProviderGaveNone)) =>
        /\ Get(result.json, "dias_afastamento") = PyInt(DefaultDias)
        /\ Get(result.json, "cid") = NaoInformado

\* C19: for an ATESTADO request without cid and dias_afastamento that the
\* fallback generator serves, the returned warnings hold the missing-CID one.
FallbackAtestadoWarnsMissingCid ==
    (NoCidNoDias /\ req.generated.provider = "fallback") =>
        Count(result.alertas, Alert.sem_cid) = 1

\* C20: every returned JSON holds a metadata object with the generation time,
\* the resolved document type and the name of the provider (or "fallback").
MetadataHasProvider ==
    (Processed /\ result.status = "returned") =>
        /\ "_meta" \in DOMAIN result.json.d
        /\ {"gerado_em", "tipo_documento", "provider"} \subseteq
              DOMAIN result.json.d["_meta"].d

\* C11: with several threads on one LLMClient, no interleaving of the steps of
\* _cache_get and _cache_set raises in any thread, and whenever no call is
\* under way the cache holds at most cache_size entries.
ConcurrentCacheSafe ==
    /\ \A t \in Threads : result[t].status # "raised"
    /\ (\A t \in Threads : pc[t] = "idle") => Len(cache) <= cache_size

\* C21: every JSON that generation returns has an identificacao object, for
\* every document type, whether it is a provider object that validated as it
\* came, a repaired object or the fallback's output.
ReturnedJsonHasIdentificacao ==
    (Processed /\ result.status = "returned") =>
        /\ "identificacao" \in DOMAIN result.json.d
        /\ IsDict(result.json.d["identificacao"])

SoapSectionOk(payload, k) ==
    /\ k \in DOMAIN payload.d
    /\ IF k \in {"S", "O"}
       THEN IsStr(payload.d[k]) /\ TextLen(payload.d[k].s) <= 6000
       ELSE IsList(payload.d[k]) /\ AllStr(payload.d[k].items)

\* C25: validate_document("SOAP", payload) returns for an object whose S and O
\* are strings (of at most 6000 characters) and whose A and P are lists of
\* strings, its identificacao, when it has one, being an object; it raises
\* ValidationError for every object that lacks one of S, O, A, P.
SoapNeedsAllSections ==
    (pc = "validated" /\ req.op = "validate_document") =>
        /\ ((\A k \in SoapSections : SoapSectionOk(req.payload, k))
            /\ Get(req.payload, "identificacao") # NoMapping) =>
              result.status = "returned"
        /\ (\E k \in SoapSections : k \notin DOMAIN req.payload.d) =>
              result = [status |-> "raised", error |-> "ValidationError"]

SoapNeedsAllSectionsWitness ==
    /\ pc = "validated"
    /\ req.op = "validate_document"
    /\ req.payload = PyDict("S" :> Lit("s"))
    /\ result.status = "raised"

\* the call at position k returned a completion the orchestrator turned down:
\* no JSON block, JSON that does not parse, or JSON that fails the schema
TurnedDown(k) ==
    /\ calls[k].outcome = "response"
    /\ k < Len(calls) \/ pc = "calling"

\* C27: a provider attempt whose completion is empty or malformed counts as a
\* failed attempt and is retried on the same provider: the orchestrator leaves
\* a provider only after max_retries + 1 attempts on it.
MalformedCompletionRetried ==
    \A k \in 1..Len(calls) :
        (TurnedDown(k) /\ Left(calls[k].p)) => Len(CallsOf(calls[k].p)) = max_retries + 1

ErrorsOf(p) == Len(SelectSeq(calls, LAMBDA e : e.p = p /\ e.outcome = "error"))
\* the waits one provider causes: one after each failed attempt but the last
\* allowed one
WaitsOf(p) == IF ErrorsOf(p) = max_retries + 1 THEN max_retries ELSE ErrorsOf(p)
RECURSIVE ExpectedSleeps(_)
ExpectedSleeps(i) ==
    IF i > Len(providers) THEN <<>>
    ELSE [j \in 1..WaitsOf(providers[i]) |-> 2 ^ (j - 1)] \o ExpectedSleeps(i + 1)

\* C28: the wait after the failed attempt with index i is retry_backoff_s * 2^i
\* and waits happen only between two attempts on one provider: a provider that
\* always fails causes max_retries waits, none after its last attempt, and a
\* provider that succeeds on attempt k causes k - 1 waits and no further call.
BackoffIsExponential ==
    req.op = "generate_document" =>
        /\ sleeps = ExpectedSleeps(1)
        /\ \A p \in ProviderNames :
              (AllErrors(CallsOf(p)) /\ CallsOf(p) # <<>> /\ Left(p)) =>
                  WaitsOf(p) = max_retries
        /\ (pc = "done" /\ result.provider \in ProviderNames /\ calls # <<>>) =>
              /\ calls[Len(calls)] = Call(result.provider, "response")
              /\ WaitsOf(result.provider) = Len(CallsOf(result.provider)) - 1

BackoffIsExponentialWitness ==
    /\ pc = "done"
    /\ req.op = "generate_document"
    /\ max_retries = 2
    /\ providers = <<"openai", "ollama">>
    /\ result.provider = "ollama"
    /\ Len(calls) = 5
    /\ sleeps = <<1, 2, 1>>

\* C30: a result of the fallback generator is stored in the cache like a
\* provider's, and a request whose key holds a fallback result gets that
\* result back without any provider call or fallback run, whatever the
\* providers would answer now.
FallbackResultIsCached ==
    req.op = "generate_document" =>
        /\ (pc = "done" /\ result.provider = "fallback") =>
              CacheValue(cache, req.key) = result
        /\ (pc = "done" /\ CacheValue(cache0, req.key).provider = "fallback") =>
              /\ result = CacheValue(cache0, req.key)
              /\ calls = <<>>
              /\ sleeps = <<>>

FallbackResultIsCachedWitness ==
    /\ pc = "done"
    /\ req.op = "generate_document"
    /\ prev.result.provider = "fallback"
    /\ prev.req.key = req.key
    /\ Len(prev.req.key) > 0
    /\ result = prev.result
    /\ calls = <<>>
    /\ \E p \in ProviderNames : avail[p]
    /\ providers # <<>>

\* C29: a request is never answered from the cache with a result computed for
\* another (type, normalized payload, context) triple: when the request finds
\* the entry the previous request stored, the two requests have the same type,
\* the same normalized payload and the same context.
NoSharedCacheEntry ==
    (/\ pc = "done"
     /\ req.op = "generate_document"
     /\ prev.result.status = "returned"
     /\ CacheHit(cache0, req.key)
     /\ req.key = prev.req.key)
        => SameRequest(req, prev.req)

StageOrder ==
    <<"NORMALIZE", "BUILD_CONTEXT", "CACHE_LOOKUP", "PROMPT", "PROVIDER_LOOP", "PARSE",
      "VALIDATE", "RULES", "ATTACH_METADATA", "CACHE_STORE", "DONE">>
Rank(stage) == CHOOSE i \in 1..Len(StageOrder) : StageOrder[i] = stage
Follows(a, b) == Rank(a) < Rank(b)

\* C26: the stages of a request occur in the order NORMALIZE, BUILD_CONTEXT,
\* CACHE_LOOKUP, PROMPT, PROVIDER_LOOP, PARSE, VALIDATE, RULES,
\* ATTACH_METADATA, CACHE_STORE, DONE: the cache is looked up before the
\* prompt is built, and a finished request has skipped no stage unless the
\* lookup hit, after which only DONE follows.
StagesInOrder ==
    (pc = "done" /\ req.op = "generate_document") =>
        LET s == StagesOf
        IN /\ \A i \in 1..(Len(s) - 1) :
                 \/ Follows(s[i], s[i + 1])
                 \* the provider loop takes one turn per call
                 \/ s[i] \in {"PROVIDER_LOOP", "VALIDATE"} /\ s[i + 1] = "PROVIDER_LOOP"
           /\ IF CacheHit(cache0, req.key)
              THEN s[Len(s)] = "DONE" /\ s[Len(s) - 1] = "CACHE_LOOKUP"
              ELSE \A k \in 1..Len(StageOrder) :
                      StageOrder[k] = "PARSE" \/ StageOrder[k] = "VALIDATE"
                      \/ \E i \in 1..Len(s) : s[i] = StageOrder[k]

Positions(s, c) == {i \in 1..Len(s) : s[i].c = c}
First(S) == CHOOSE i \in S : \A j \in S : i <= j
Last(S) == CHOOSE i \in S : \A j \in S : j <= i
\* what follows the first occurrence of the marker
AfterMarker(s) ==
    LET i == First(Positions(s, "JSON:"))
    IN (IF s[i].n > 1 THEN <<Run("JSON:", s[i].n - 1)>> ELSE <<>>) \o SubSeq(s, i + 1, Len(s))

\* C22: _parse_completion splits by the first rule that applies: with the
\* marker "JSON:" in the completion, the prose is what precedes the first
\* marker and the JSON block what follows it, braces in the prose or not;
\* else, with an opening and a closing brace, the block runs from the first
\* opening to the last closing brace and the prose is what precedes it; else
\* the whole completion is prose and the block is empty.  The prose is
\* returned without "TEXTO:" and without blanks at its ends.
ParseSplitsByFirstRule ==
    (pc = "parsed" /\ req.op = "_parse_completion") =>
        LET s == req.response
        IN /\ IF Positions(s, "JSON:") # {}
              THEN /\ result.text_block = SubSeq(s, 1, First(Positions(s, "JSON:")) - 1)
                   /\ result.json_block = AfterMarker(s)
              ELSE IF Positions(s, "{") # {} /\ Positions(s, "}") # {}
              THEN /\ result.text_block = SubSeq(s, 1, First(Positions(s, "{")) - 1)
                   /\ result.json_block =
                         SubSeq(s, First(Positions(s, "{")), Last(Positions(s, "}")))
              ELSE result.text_block = s /\ result.json_block = <<>>
           /\ result.status = "returned" =>
                 result.text = Strip(SelectSeq(result.text_block, LAMBDA r : r.c # "TEXTO:"))

ParseSplitsByFirstRuleWitness ==
    /\ pc = "parsed"
    /\ req.op = "_parse_completion"
    /\ Len(req.response) = 10
    /\ req.response[3].c = "{"
    /\ req.response[5].c = "JSON:"
    /\ result.text = <<Run("x", 1), Run(" ", 1), Run("{", 1)>>
    /\ result.json = EmptyDict

\* C23: _parse_completion raises for no input string: with an empty JSON block
\* or one that does not parse it returns the empty object, and a completion
\* without marker and braces comes back whole as prose with the object {}.
ParseNeverRaises ==
    (pc = "parsed" /\ req.op = "_parse_completion") =>
        /\ result.status = "returned"
        /\ (Positions(req.response, "JSON:") = {}
            /\ (Positions(req.response, "{") = {} \/ Positions(req.response, "}") = {})) =>
              /\ result.json = EmptyDict
              /\ result.text = req.response

Words(s) == SelectSeq(s, LAMBDA r : ~IsSpace(r))
\* no blank at either end, and one blank at most between two words
Sanitized(s) ==
    /\ s # <<>> => ~IsSpace(s[1]) /\ ~IsSpace(s[Len(s)])
    /\ \A i \in 1..Len(s) : IsSpace(s[i]) => s[i].n = 1 /\ ~IsSpace(s[i + 1])
\* provider p has had its turn without giving a revision
GaveUp(p) ==
    LET cs == CallsOf(p)
    IN /\ cs # <<>>
       /\ \/ AllErrors(cs) /\ Len(cs) = max_retries + 1
          \/ cs[Len(cs)].outcome = "response" /\ ~IsStr(cs[Len(cs)].response)

\* C24: revise_text never raises and always returns: on a cache miss the
\* providers are tried in their order, each with the retry loop of
\* _call_provider; the first completion that comes back is returned, stripped,
\* under its provider's name and nothing is called after it; when every
\* provider has given up the result is the original text with its white space
\* sanitized and provider "fallback".
RevisionAlwaysReturns ==
    req.op = "revise_text" =>
        /\ pc # "raised"
        /\ \A p \in ProviderNames : Len(CallsOf(p)) <= max_retries + 1
        /\ \A k \in 1..(Len(calls) - 1) :
              \/ /\ PositionOf(calls[k + 1].p) = PositionOf(calls[k].p)
                 /\ calls[k].outcome = "error"
                 /\ ~Finished(k)
              \/ /\ PositionOf(calls[k + 1].p) = PositionOf(calls[k].p) + 1
                 /\ Finished(k)
        /\ calls # <<>> => PositionOf(calls[1].p) = 1
        /\ pc = "done" =>
              /\ result.status = "returned"
              /\ CacheHit(cache0, req.key) =>
                    result = CacheValue(cache0, req.key) /\ calls = <<>>
              /\ (~CacheHit(cache0, req.key) /\ result.provider = "fallback") =>
                    /\ Sanitized(result.text.s)
                    /\ Words(result.text.s) = Words(req.texto.s)
                    /\ \A i \in 1..Len(providers) : GaveUp(providers[i])
              /\ (~CacheHit(cache0, req.key) /\ result.provider # "fallback") =>
                    LET last == calls[Len(calls)]
                    IN /\ last.p = result.provider
                       /\ last.outcome = "response"
                       /\ result.text = PyStr(Strip(last.response.s))
                       /\ \A i \in 1..(PositionOf(last.p) - 1) : GaveUp(providers[i])
                       /\ \A i \in (PositionOf(last.p) + 1)..Len(providers) :
                             CallsOf(providers[i]) = <<>>

RevisionAlwaysReturnsWitness ==
    /\ pc = "done"
    /\ req.op = "revise_text"
    /\ req.texto = Text(<<" ", "a", " ", " ", "b", " ">>)
    /\ max_retries = 2
    /\ Len(providers) = 2
    /\ Len(calls) = 6
    /\ result = Revised(Text(<<"a", " ", "b">>), "fallback")

====
